---- MODULE Spec2Model ----
(***************************************************************************)
(* The JSON-RPC relay of mcd-coupon (src/mcp_server) and the Remote Tool   *)
(* Client it proxies to (src/mcp/client.rs).                               *)
(*                                                                         *)
(* JSON values are tagged records.  A JSON number keeps its literal (the   *)
(* sequence of characters on the wire), so that the u32 range check and    *)
(* the rendering of a u32 back to a literal are computed on full-width     *)
(* values.  A string that the code parses character by character (the id)  *)
(* is a sequence of one-character strings (JChars); a string the code      *)
(* only compares as a whole (method and tool names, texts) is a TLA+       *)
(* string (JStr).  A JSON object is the list of its members.               *)
(*                                                                         *)
(* Specifications: Spec is the relay over the whole variety of requests    *)
(* and remote replies; ConcurrentSpec and FairConcurrentSpec are the relay *)
(* with several requests in flight over a few requests and replies, the    *)
(* latter under the scheduling of the runtime; ClientSpec is the Remote    *)
(* Tool Client run directly, as the front-ends run it.                     *)
(***************************************************************************)
EXTENDS Integers, Sequences, FiniteSets, TLC

(* ------------------------------ bounds -------------------------------- *)

\* Number of relay requests that may be in flight at the same time.  The
\* requests follow one another in any number and any order.
MaxInFlight == 1

(* ------------------------------ Option -------------------------------- *)

None == [some |-> FALSE]
Some(x) == [some |-> TRUE, v |-> x]

(* ---------------------------- JSON values ----------------------------- *)

JNull == [t |-> "null"]
JBool(b) == [t |-> "bool", b |-> b]
JNum(lit) == [t |-> "number", lit |-> lit]
\* A JSON number given by a (small) integer value.
JInt(n) == [t |-> "number", int |-> n]
JStr(s) == [t |-> "string", s |-> s]
JChars(cs) == [t |-> "string", chars |-> cs]
JArr(items) == [t |-> "array", items |-> items]
JObj(members) == [t |-> "object", members |-> members]

\* Whether the object (a member list) has a member named key.
HasKey(members, key) == \E i \in 1..Len(members) : members[i][1] = key

\* The value of the member named key (serde_json's map keeps one value per key).
Get(members, key) ==
    members[CHOOSE i \in 1..Len(members) : members[i][1] = key][2]

(* --------------------------- decimal digits --------------------------- *)

Digits == <<"0", "1", "2", "3", "4", "5", "6", "7", "8", "9">>

IsDigit(c) == \E d \in 1..10 : Digits[d] = c

DigitVal(c) == (CHOOSE d \in 1..10 : Digits[d] = c) - 1

AllDigits(cs) == \A i \in 1..Len(cs) : IsDigit(cs[i])

\* The literal without its leading zeros ("007" -> "7", "000" -> "0").
RECURSIVE StripZeros(_)
StripZeros(cs) ==
    IF Len(cs) > 1 /\ cs[1] = "0" THEN StripZeros(Tail(cs)) ELSE cs

\* a < b for two digit sequences of the same length.
RECURSIVE DigitsLess(_, _)
DigitsLess(a, b) ==
    IF Len(a) = 0 THEN FALSE
    ELSE IF DigitVal(a[1]) # DigitVal(b[1]) THEN DigitVal(a[1]) < DigitVal(b[1])
    ELSE DigitsLess(Tail(a), Tail(b))

\* u32::MAX = 4294967295, as the digits of its literal.
U32MaxDigits == <<"4", "2", "9", "4", "9", "6", "7", "2", "9", "5">>

\* Whether the value of a zero-stripped digit sequence fits a u32.
FitsU32(ds) ==
    \/ Len(ds) < Len(U32MaxDigits)
    \/ Len(ds) = Len(U32MaxDigits) /\ ~DigitsLess(U32MaxDigits, ds)

(* ----------------------- id deserialization --------------------------- *)

\* A u32 is kept as the digits of its value (no leading zeros).
\* serde_json::Number::as_u64 followed by u32::try_from: the literal of a
\* JSON number is an unsigned integer (no sign, fraction or exponent) in range.
NumberAsU32(lit) ==
    IF Len(lit) > 0 /\ AllDigits(lit) /\ FitsU32(StripZeros(lit))
    THEN Some(StripZeros(lit))
    ELSE None

\* str::parse::<u32>: an optional leading "+", then one or more ASCII digits
\* (leading zeros allowed), the value in range.
ParseU32(cs) ==
    LET body == IF Len(cs) > 0 /\ cs[1] = "+" THEN Tail(cs) ELSE cs
    IN  IF Len(body) > 0 /\ AllDigits(body) /\ FitsU32(StripZeros(body))
        THEN Some(StripZeros(body))
        ELSE None

\* Result<Option<u32>, Error> as [ok, id]: id is None for a notification.
DeIdOk(optId) == [ok |-> TRUE, id |-> optId]
DeIdErr(msg) == [ok |-> FALSE, msg |-> msg]

\* The id deserializer with a JSON null taken for the id 0.
deserialize_optional_id_NullIsZero(wireId) ==
    IF ~wireId.present THEN DeIdOk(None)
    ELSE LET v == wireId.v IN
         CASE v.t = "null" -> DeIdOk(Some(<<"0">>))
           [] v.t = "number" ->
                IF NumberAsU32(v.lit).some
                THEN DeIdOk(NumberAsU32(v.lit))
                ELSE DeIdErr("Invalid ID: number out of range")
           [] v.t = "string" ->
                IF ParseU32(v.chars).some
                THEN DeIdOk(ParseU32(v.chars))
                ELSE DeIdErr("Invalid ID: string is not a valid number")
           [] OTHER -> DeIdErr("Invalid ID: must be number, string, or null")

\* The id deserializer with a missing id taken for the id 0.
deserialize_optional_id_AbsentIsZero(wireId) ==
    IF ~wireId.present THEN DeIdOk(Some(<<"0">>))
    ELSE LET v == wireId.v IN
         CASE v.t = "null" -> DeIdOk(None)
           [] v.t = "number" ->
                IF NumberAsU32(v.lit).some
                THEN DeIdOk(NumberAsU32(v.lit))
                ELSE DeIdErr("Invalid ID: number out of range")
           [] v.t = "string" ->
                IF ParseU32(v.chars).some
                THEN DeIdOk(ParseU32(v.chars))
                ELSE DeIdErr("Invalid ID: string is not a valid number")
           [] OTHER -> DeIdErr("Invalid ID: must be number, string, or null")

\* The id deserializer taking every unsigned integer literal, whatever its
\* value (the number kept as a u64, not narrowed to u32).
deserialize_optional_id_NoRangeCheck(wireId) ==
    IF ~wireId.present THEN DeIdOk(None)
    ELSE LET v == wireId.v IN
         CASE v.t = "null" -> DeIdOk(None)
           [] v.t = "number" ->
                IF Len(v.lit) > 0 /\ AllDigits(v.lit)
                THEN DeIdOk(Some(StripZeros(v.lit)))
                ELSE DeIdErr("Invalid ID: number out of range")
           [] v.t = "string" ->
                IF ParseU32(v.chars).some
                THEN DeIdOk(ParseU32(v.chars))
                ELSE DeIdErr("Invalid ID: string is not a valid number")
           [] OTHER -> DeIdErr("Invalid ID: must be number, string, or null")

\* wireId: [present |-> FALSE] when the member is missing (serde default),
\* else [present |-> TRUE, v |-> the JSON value].
deserialize_optional_id(wireId) ==
    IF ~wireId.present THEN DeIdOk(None)
    ELSE LET v == wireId.v IN
         CASE v.t = "null" -> DeIdOk(None)
           [] v.t = "number" ->
                IF NumberAsU32(v.lit).some
                THEN DeIdOk(NumberAsU32(v.lit))
                ELSE DeIdErr("Invalid ID: number out of range")
           [] v.t = "string" ->
                IF ParseU32(v.chars).some
                THEN DeIdOk(ParseU32(v.chars))
                ELSE DeIdErr("Invalid ID: string is not a valid number")
           [] OTHER -> DeIdErr("Invalid ID: must be number, string, or null")

(* ------------------------ relay request (types.rs) -------------------- *)

\* A request as it arrives on the wire: jsonrpc and method are strings,
\* params and id are [present |-> FALSE] or [present |-> TRUE, v |-> JSON].
Absent == [present |-> FALSE]
Present(v) == [present |-> TRUE, v |-> v]

\* Option<serde_json::Value>: a missing member and a JSON null are both None.
OptionValue(member) ==
    IF member.present /\ member.v.t # "null" THEN Some(member.v) ELSE None

\* Deserialization of the body into McpRequest (the Json extractor of the
\* handler): fails when the id deserializer fails.
DeserializeRequest(wire) ==
    LET id == deserialize_optional_id(wire.id) IN
    IF id.ok
    THEN [ok |-> TRUE,
          request |-> [jsonrpc |-> wire.jsonrpc,
                       method |-> wire.method,
                       params |-> OptionValue(wire.params),
                       id |-> id.id]]
    ELSE [ok |-> FALSE, msg |-> id.msg]

(* ----------------------- relay response (types.rs) -------------------- *)

InvalidParams == -32602
MethodNotFound == -32601

\* McpContent::text building a "data" item that carries no text.
McpContentText_AsData(content) ==
    [content_type |-> "data", text |-> None, data |-> Some(JStr(content))]

\* McpContent::text
McpContentText(content) ==
    [content_type |-> "text", text |-> Some(content), data |-> None]

\* Serialize for McpContent: "type", "text" (null when None), "data" skipped
\* when None.
SerializeContent(c) ==
    JObj(<< <<"type", JStr(c.content_type)>>,
            <<"text", IF c.text.some THEN JStr(c.text.v) ELSE JNull>> >>
         \o (IF c.data.some THEN << <<"data", c.data.v>> >> ELSE <<>>))

\* Serialize for McpToolResult: "content" and "isError".
SerializeToolResult(tr) ==
    JObj(<< <<"content", JArr([i \in 1..Len(tr.content) |->
                                  SerializeContent(tr.content[i])])>>,
            <<"isError", JBool(tr.is_error)>> >>)

\* McpResponse::success: result holds the JSON value of the data.
McpResponseSuccess(id, data) ==
    [jsonrpc |-> "2.0", result |-> Some(data), error |-> None, id |-> id]

\* McpResponse::success_tool_result
success_tool_result(id, content) ==
    [jsonrpc |-> "2.0",
     result |-> Some(SerializeToolResult([content |-> content, is_error |-> FALSE])),
     error |-> None,
     id |-> id]

\* McpResponse::error with the result left set (to null) beside the error.
McpResponseError_WithResult(id, code, message) ==
    [jsonrpc |-> "2.0",
     result |-> Some(JNull),
     error |-> Some([code |-> code, message |-> message, data |-> None]),
     id |-> id]

\* McpResponse::error
McpResponseError(id, code, message) ==
    [jsonrpc |-> "2.0",
     result |-> None,
     error |-> Some([code |-> code, message |-> message, data |-> None]),
     id |-> id]

\* McpResponse::tool_error
tool_error(id, message) ==
    [jsonrpc |-> "2.0",
     result |-> Some(SerializeToolResult(
         [content |-> << [content_type |-> "text", text |-> Some(message),
                          data |-> None] >>,
          is_error |-> TRUE])),
     error |-> None,
     id |-> id]

\* Serialize for McpError: "data" skipped when None.
SerializeError(e) ==
    JObj(<< <<"code", JInt(e.code)>>, <<"message", JStr(e.message)>> >>
         \o (IF e.data.some THEN << <<"data", e.data.v>> >> ELSE <<>>))

\* Serialize for McpResponse: "result" and "error" are skipped when None; the
\* u32 id is written as a JSON number.
SerializeResponse(r) ==
    JObj(<< <<"jsonrpc", JStr(r.jsonrpc)>> >>
         \o (IF r.result.some THEN << <<"result", r.result.v>> >> ELSE <<>>)
         \o (IF r.error.some THEN << <<"error", SerializeError(r.error.v)>> >> ELSE <<>>)
         \o << <<"id", JNum(r.id)>> >>)

(* ------------------- static payloads (handlers.rs) -------------------- *)

EmptyObject == JObj(<<>>)

\* The four tools, in the order of handle_tools_list.
ToolNames == <<"available-coupons", "auto-bind-coupons", "my-coupons", "now-time-info">>

\* The descriptions are Chinese texts in the source; they are rendered in
\* English here, the same source text giving the same rendering.
ToolDescriptions ==
    <<"get all available McDonald's coupons",
      "claim all available McDonald's coupons in one step",
      "view the McDonald's coupons already claimed",
      "get the current time information">>

\* The result of initialize.
InitializeResult ==
    JObj(<< <<"protocolVersion", JStr("2024-11-05")>>,
            <<"capabilities", JObj(<< <<"tools", EmptyObject>> >>)>>,
            <<"serverInfo", JObj(<< <<"name", JStr("mcd-coupon")>>,
                                    <<"version", JStr("0.1.0")>> >>)>> >>)

\* One tool descriptor of tools/list.
\* The names the tool descriptors of tools/list are written with.
DescriptorNames ==
    <<"available-coupons", "auto-bind-coupons", "my-coupons", "now-time-info">>

ToolDescriptor(i) ==
    JObj(<< <<"name", JStr(DescriptorNames[i])>>,
            <<"description", JStr(ToolDescriptions[i])>>,
            <<"inputSchema", JObj(<< <<"type", JStr("object")>>,
                                     <<"properties", EmptyObject>>,
                                     <<"required", JArr(<<>>)>> >>)>> >>)

\* The result of tools/list.
ToolsListResult ==
    JObj(<< <<"tools", JArr([i \in 1..Len(DescriptorNames) |-> ToolDescriptor(i)])>> >>)

ProtocolMethods ==
    <<"initialize", "tools/list", "tools/call", "system.listMethods",
      "system.describeMethod">>

\* The result of system.listMethods: the protocol methods, then each tool
\* as "tools/call:{tool}".
ListMethodsResult ==
    JArr([i \in 1..Len(ProtocolMethods) |-> JStr(ProtocolMethods[i])]
         \o [i \in 1..Len(ToolNames) |-> JStr("tools/call:" \o ToolNames[i])])

\* Serialize for McpToolDescription ("examples" is None everywhere and skipped).
Description(name, description, parameters, returns, tags) ==
    JObj(<< <<"name", JStr(name)>>,
            <<"description", JStr(description)>>,
            <<"parameters", parameters>>,
            <<"returns", returns>>,
            <<"tags", JArr([i \in 1..Len(tags) |-> JStr(tags[i])])>> >>)

TypeOnly(ty) == JObj(<< <<"type", JStr(ty)>> >>)
Typed(ty, description) ==
    JObj(<< <<"type", JStr(ty)>>, <<"description", JStr(description)>> >>)

describe_initialize ==
    Description("initialize", "initialize the MCP connection",
        JObj(<< <<"type", JStr("object")>>,
                <<"properties", JObj(<<
                    <<"protocolVersion", Typed("string", "protocol version")>>,
                    <<"capabilities", Typed("object", "client capabilities")>>,
                    <<"clientInfo", Typed("object", "client information")>> >>)>> >>),
        JObj(<< <<"type", JStr("object")>>,
                <<"properties", JObj(<<
                    <<"protocolVersion", TypeOnly("string")>>,
                    <<"capabilities", TypeOnly("object")>>,
                    <<"serverInfo", TypeOnly("object")>> >>)>> >>),
        <<"system", "initialization">>)

describe_tools_list ==
    Description("tools/list", "list all available MCP tools",
        JObj(<< <<"type", JStr("object")>>,
                <<"properties", EmptyObject>>,
                <<"required", JArr(<<>>)>> >>),
        JObj(<< <<"type", JStr("object")>>,
                <<"properties", JObj(<<
                    <<"tools", JObj(<<
                        <<"type", JStr("array")>>,
                        <<"items", JObj(<<
                            <<"type", JStr("object")>>,
                            <<"properties", JObj(<<
                                <<"name", TypeOnly("string")>>,
                                <<"description", TypeOnly("string")>>,
                                <<"inputSchema", TypeOnly("object")>> >>)>> >>)>> >>)>> >>)>> >>),
        <<"tools", "introspection">>)

describe_tools_call ==
    Description("tools/call", "call the given MCP tool",
        EmptyObject, EmptyObject, <<"system", "tools">>)

describe_list_methods ==
    Description("system.listMethods", "list all available MCP methods",
        EmptyObject, EmptyObject, <<"system", "introspection">>)

describe_describe_method ==
    Description("system.describeMethod", "get the detailed description of the given MCP method",
        EmptyObject, EmptyObject, <<"system", "introspection">>)

describe_available_coupons_tool ==
    Description("available-coupons", ToolDescriptions[1],
        EmptyObject, EmptyObject, <<"coupons", "available">>)

describe_auto_bind_coupons_tool ==
    Description("auto-bind-coupons", ToolDescriptions[2],
        EmptyObject, EmptyObject, <<"coupons", "claim">>)

describe_my_coupons_tool ==
    Description("my-coupons", ToolDescriptions[3],
        EmptyObject, EmptyObject, <<"coupons", "my">>)

describe_current_time_tool ==
    Description("now-time-info", ToolDescriptions[4],
        EmptyObject, EmptyObject, <<"time">>)

(* ----------------------- params deserialization ----------------------- *)

ParamsOk(fields) == [ok |-> TRUE, fields |-> fields]
ParamsErr(msg) == [ok |-> FALSE, msg |-> msg]

\* The JSON type of a value, as serde's "invalid type" errors name it.
Unexpected(v) ==
    CASE v.t = "null" -> "null"
      [] v.t = "bool" -> "boolean"
      [] v.t = "number" -> "number"
      [] v.t = "string" -> "string"
      [] v.t = "array" -> "sequence"
      [] OTHER -> "map"

\* serde_json::from_value::<McpToolCallParams>: a map with a string "name"
\* and an optional "arguments" (other members are ignored), or a sequence of
\* exactly the two fields in order.
DeserializeToolCallParams(v) ==
    CASE v.t = "object" ->
           IF ~HasKey(v.members, "name")
           THEN ParamsErr("missing field name")
           ELSE IF Get(v.members, "name").t # "string"
           THEN ParamsErr("invalid type: " \o Unexpected(Get(v.members, "name"))
                          \o ", expected a string")
           ELSE ParamsOk([name |-> Get(v.members, "name").s,
                          arguments |->
                              IF HasKey(v.members, "arguments")
                                 /\ Get(v.members, "arguments").t # "null"
                              THEN Some(Get(v.members, "arguments"))
                              ELSE None])
      [] v.t = "array" ->
           IF Len(v.items) = 0
           THEN ParamsErr("invalid length 0, expected struct McpToolCallParams with 2 elements")
           ELSE IF v.items[1].t # "string"
           THEN ParamsErr("invalid type: " \o Unexpected(v.items[1])
                          \o ", expected a string")
           ELSE IF Len(v.items) = 1
           THEN ParamsErr("invalid length 1, expected struct McpToolCallParams with 2 elements")
           ELSE IF Len(v.items) > 2
           THEN ParamsErr("invalid length " \o ToString(Len(v.items))
                          \o ", expected fewer elements in array")
           ELSE ParamsOk([name |-> v.items[1].s,
                          arguments |-> IF v.items[2].t # "null"
                                        THEN Some(v.items[2]) ELSE None])
      [] OTHER ->
           ParamsErr("invalid type: " \o Unexpected(v)
                     \o ", expected struct McpToolCallParams")

\* serde_json::from_value::<McpDescribeMethodParams>: a map with a string
\* "name", or a sequence of exactly that one field.
DeserializeDescribeMethodParams(v) ==
    CASE v.t = "object" ->
           IF ~HasKey(v.members, "name")
           THEN ParamsErr("missing field name")
           ELSE IF Get(v.members, "name").t # "string"
           THEN ParamsErr("invalid type: " \o Unexpected(Get(v.members, "name"))
                          \o ", expected a string")
           ELSE ParamsOk([name |-> Get(v.members, "name").s])
      [] v.t = "array" ->
           IF Len(v.items) = 0
           THEN ParamsErr("invalid length 0, expected struct McpDescribeMethodParams with 1 element")
           ELSE IF v.items[1].t # "string"
           THEN ParamsErr("invalid type: " \o Unexpected(v.items[1])
                          \o ", expected a string")
           ELSE IF Len(v.items) > 1
           THEN ParamsErr("invalid length " \o ToString(Len(v.items))
                          \o ", expected fewer elements in array")
           ELSE ParamsOk([name |-> v.items[1].s])
      [] OTHER ->
           ParamsErr("invalid type: " \o Unexpected(v)
                     \o ", expected struct McpDescribeMethodParams")

\* The first match of handle_tools_call and handle_describe_method: Some
\* params are deserialized, None is the "Missing params" error.
\* Missing params taken for params that name no tool.
ParseToolCallParams_MissingIsDefault(params) ==
    IF params.some THEN DeserializeToolCallParams(params.v)
    ELSE ParamsOk([name |-> "", arguments |-> None])

ParseToolCallParams(params) ==
    IF params.some THEN DeserializeToolCallParams(params.v)
    ELSE ParamsErr("Missing params")

ParseDescribeMethodParams(params) ==
    IF params.some THEN DeserializeDescribeMethodParams(params.v)
    ELSE ParamsErr("Missing params")

(* ------------------------- dispatch (handlers.rs) --------------------- *)

\* What a branch of the dispatch comes to: a response, or one of the four
\* tool handlers, which has to call the remote service first.
Respond(response) == [kind |-> "response", response |-> response]
CallTool(id, tool) == [kind |-> "tool", id |-> id, tool |-> tool]

\* The match on the tool name taking the "tools/call:" form of a tool too.
IsTool_WithPrefixedForm(name) ==
    \E i \in 1..Len(ToolNames) :
        ToolNames[i] = name \/ "tools/call:" \o ToolNames[i] = name

\* The match on the tool name without the arm of the current-time tool.
IsTool_ThreeTools(name) ==
    name \in {"available-coupons", "auto-bind-coupons", "my-coupons"}

\* The arms of the match of handle_tools_call that name a tool.
IsTool(name) ==
    name \in {"available-coupons", "auto-bind-coupons", "my-coupons", "now-time-info"}

handle_initialize(id) == Respond(McpResponseSuccess(id, InitializeResult))

handle_tools_list(id) == Respond(McpResponseSuccess(id, ToolsListResult))

handle_list_methods(id) == Respond(McpResponseSuccess(id, ListMethodsResult))

\* request.id is Some here; unwrap_or(0) keeps it.
IdOrZero(request) == IF request.id.some THEN request.id.v ELSE <<"0">>

handle_tools_call(request) ==
    LET id == IdOrZero(request)
        tool_params == ParseToolCallParams(request.params)
    IN  IF ~tool_params.ok
        THEN Respond(McpResponseError(id, InvalidParams,
                                      "Invalid params: " \o tool_params.msg))
        ELSE IF IsTool(tool_params.fields.name)
        THEN CallTool(id, tool_params.fields.name)
        ELSE Respond(McpResponseError(id, MethodNotFound,
                                      "Tool not found: " \o tool_params.fields.name))

\* handle_describe_method with the "tools/call:" form of a tool name taken
\* for the method tools/call.
handle_describe_method_PrefixedIsToolsCall(request) ==
    LET id == IdOrZero(request)
        describe_params == ParseDescribeMethodParams(request.params)
        name == describe_params.fields.name
    IN  IF ~describe_params.ok
        THEN Respond(McpResponseError(id, InvalidParams,
                                      "Invalid params: " \o describe_params.msg))
        ELSE CASE name = "initialize" ->
                    Respond(McpResponseSuccess(id, describe_initialize))
               [] name = "tools/list" ->
                    Respond(McpResponseSuccess(id, describe_tools_list))
               [] name = "tools/call" ->
                    Respond(McpResponseSuccess(id, describe_tools_call))
               [] name = "system.listMethods" ->
                    Respond(McpResponseSuccess(id, describe_list_methods))
               [] name = "system.describeMethod" ->
                    Respond(McpResponseSuccess(id, describe_describe_method))
               [] name = "available-coupons" ->
                    Respond(McpResponseSuccess(id, describe_available_coupons_tool))
               [] name = "tools/call:available-coupons" ->
                    Respond(McpResponseSuccess(id, describe_tools_call))
               [] name = "auto-bind-coupons" ->
                    Respond(McpResponseSuccess(id, describe_auto_bind_coupons_tool))
               [] name = "tools/call:auto-bind-coupons" ->
                    Respond(McpResponseSuccess(id, describe_tools_call))
               [] name = "my-coupons" ->
                    Respond(McpResponseSuccess(id, describe_my_coupons_tool))
               [] name = "tools/call:my-coupons" ->
                    Respond(McpResponseSuccess(id, describe_tools_call))
               [] name = "now-time-info" ->
                    Respond(McpResponseSuccess(id, describe_current_time_tool))
               [] name = "tools/call:now-time-info" ->
                    Respond(McpResponseSuccess(id, describe_tools_call))
               [] OTHER ->
                    Respond(McpResponseError(id, MethodNotFound,
                                             "Method not found: " \o name))

\* handle_describe_method matching the tools by their bare names only.
handle_describe_method_BareOnly(request) ==
    LET id == IdOrZero(request)
        describe_params == ParseDescribeMethodParams(request.params)
        name == describe_params.fields.name
    IN  IF ~describe_params.ok
        THEN Respond(McpResponseError(id, InvalidParams,
                                      "Invalid params: " \o describe_params.msg))
        ELSE CASE name = "initialize" ->
                    Respond(McpResponseSuccess(id, describe_initialize))
               [] name = "tools/list" ->
                    Respond(McpResponseSuccess(id, describe_tools_list))
               [] name = "tools/call" ->
                    Respond(McpResponseSuccess(id, describe_tools_call))
               [] name = "system.listMethods" ->
                    Respond(McpResponseSuccess(id, describe_list_methods))
               [] name = "system.describeMethod" ->
                    Respond(McpResponseSuccess(id, describe_describe_method))
               [] name = "available-coupons" ->
                    Respond(McpResponseSuccess(id, describe_available_coupons_tool))
               [] name = "auto-bind-coupons" ->
                    Respond(McpResponseSuccess(id, describe_auto_bind_coupons_tool))
               [] name = "my-coupons" ->
                    Respond(McpResponseSuccess(id, describe_my_coupons_tool))
               [] name = "now-time-info" ->
                    Respond(McpResponseSuccess(id, describe_current_time_tool))
               [] OTHER ->
                    Respond(McpResponseError(id, MethodNotFound,
                                             "Method not found: " \o name))

handle_describe_method(request) ==
    LET id == IdOrZero(request)
        describe_params == ParseDescribeMethodParams(request.params)
        name == describe_params.fields.name
    IN  IF ~describe_params.ok
        THEN Respond(McpResponseError(id, InvalidParams,
                                      "Invalid params: " \o describe_params.msg))
        ELSE CASE name = "initialize" ->
                    Respond(McpResponseSuccess(id, describe_initialize))
               [] name = "tools/list" ->
                    Respond(McpResponseSuccess(id, describe_tools_list))
               [] name = "tools/call" ->
                    Respond(McpResponseSuccess(id, describe_tools_call))
               [] name = "system.listMethods" ->
                    Respond(McpResponseSuccess(id, describe_list_methods))
               [] name = "system.describeMethod" ->
                    Respond(McpResponseSuccess(id, describe_describe_method))
               [] name \in {"available-coupons", "tools/call:available-coupons"} ->
                    Respond(McpResponseSuccess(id, describe_available_coupons_tool))
               [] name \in {"auto-bind-coupons", "tools/call:auto-bind-coupons"} ->
                    Respond(McpResponseSuccess(id, describe_auto_bind_coupons_tool))
               [] name \in {"my-coupons", "tools/call:my-coupons"} ->
                    Respond(McpResponseSuccess(id, describe_my_coupons_tool))
               [] name \in {"now-time-info", "tools/call:now-time-info"} ->
                    Respond(McpResponseSuccess(id, describe_current_time_tool))
               [] OTHER ->
                    Respond(McpResponseError(id, MethodNotFound,
                                             "Method not found: " \o name))

\* The match of handle_mcp_request with a fallback arm that does not name
\* the method.
Dispatch_FallbackWithoutName(request) ==
    LET id == request.id.v IN
    CASE request.method = "initialize" -> handle_initialize(id)
      [] request.method = "tools/list" -> handle_tools_list(id)
      [] request.method = "tools/call" -> handle_tools_call(request)
      [] request.method = "system.listMethods" -> handle_list_methods(id)
      [] request.method = "system.describeMethod" -> handle_describe_method(request)
      [] OTHER -> Respond(McpResponseError(id, MethodNotFound, "Method not found"))

\* The match of handle_mcp_request on the method, for a request with an id.
Dispatch(request) ==
    LET id == request.id.v IN
    CASE request.method = "initialize" -> handle_initialize(id)
      [] request.method = "tools/list" -> handle_tools_list(id)
      [] request.method = "tools/call" -> handle_tools_call(request)
      [] request.method = "system.listMethods" -> handle_list_methods(id)
      [] request.method = "system.describeMethod" -> handle_describe_method(request)
      [] OTHER -> Respond(McpResponseError(id, MethodNotFound,
                                           "Method not found: " \o request.method))

(* ------------------- Remote Tool Client (mcp/client.rs) --------------- *)

\* [T]::join("\n")
RECURSIVE Join(_)
Join(texts) ==
    IF Len(texts) = 0 THEN ""
    ELSE IF Len(texts) = 1 THEN texts[1]
    ELSE texts[1] \o "\n" \o Join(Tail(texts))

\* iter().filter_map(|c| c.text.as_ref()): the texts of the items that
\* carry one, in order.
RECURSIVE Texts(_)
Texts(content) ==
    IF Len(content) = 0 THEN <<>>
    ELSE (IF content[1].text.some THEN <<content[1].text.v>> ELSE <<>>)
         \o Texts(Tail(content))

\* The filter on the type of the items left out: every item is kept.
TextItems_EveryItem(content) == content

\* iter().filter(|c| c.content_type == "text"): the items of type "text".
RECURSIVE TextItems(_)
TextItems(content) ==
    IF Len(content) = 0 THEN <<>>
    ELSE (IF content[1].content_type = "text" THEN <<content[1]>> ELSE <<>>)
         \o TextItems(Tail(content))

\* The request call_tool posts: arguments is None (and skipped by Serialize)
\* when the params are null or the empty object.
OutboundRequest(tool_name, params) ==
    JObj(<< <<"jsonrpc", JStr("2.0")>>,
            <<"method", JStr("tools/call")>>,
            <<"params", JObj(<< <<"name", JStr(tool_name)>> >>
                             \o (IF params.t = "null"
                                    \/ (params.t = "object" /\ Len(params.members) = 0)
                                 THEN <<>>
                                 ELSE << <<"arguments", params>> >>))>>,
            <<"id", JInt(1)>> >>)

DeOk(v) == [ok |-> TRUE, v |-> v]
DeErr(msg) == [ok |-> FALSE, msg |-> msg]

\* An optional member: missing or null is None.
Member(members, key) ==
    IF HasKey(members, key) /\ Get(members, key).t # "null"
    THEN Some(Get(members, key)) ELSE None

\* Deserialize for McpContent (mcp/types.rs): "type" is required, "text"
\* is an optional string.
DeserializeContent(v) ==
    IF v.t # "object" THEN DeErr("invalid type, expected struct McpContent")
    ELSE IF ~HasKey(v.members, "type") THEN DeErr("missing field type")
    ELSE IF Get(v.members, "type").t # "string" THEN DeErr("invalid type, expected a string")
    ELSE IF Member(v.members, "text").some /\ Member(v.members, "text").v.t # "string"
    THEN DeErr("invalid type, expected a string")
    ELSE DeOk([content_type |-> Get(v.members, "type").s,
               text |-> IF Member(v.members, "text").some
                        THEN Some(Member(v.members, "text").v.s) ELSE None])

\* Deserialize for McpToolResult (mcp/types.rs): "content" is required,
\* "isError" defaults to false.
DeserializeToolResult(v) ==
    IF v.t # "object" THEN DeErr("invalid type, expected struct McpToolResult")
    ELSE IF ~HasKey(v.members, "content") THEN DeErr("missing field content")
    ELSE IF Get(v.members, "content").t # "array" THEN DeErr("invalid type, expected a sequence")
    ELSE LET items == Get(v.members, "content").items IN
         IF \E i \in 1..Len(items) : ~DeserializeContent(items[i]).ok
         THEN DeErr("invalid content item")
         ELSE IF HasKey(v.members, "isError") /\ Get(v.members, "isError").t # "bool"
         THEN DeErr("invalid type, expected a boolean")
         ELSE DeOk([content |-> [i \in 1..Len(items) |-> DeserializeContent(items[i]).v],
                    is_error |-> IF HasKey(v.members, "isError")
                                 THEN Get(v.members, "isError").b ELSE FALSE])

\* Deserialize for McpError (mcp/types.rs): "code" and "message" are required.
DeserializeRemoteError(v) ==
    IF v.t # "object" THEN DeErr("invalid type, expected struct McpError")
    ELSE IF ~HasKey(v.members, "code") THEN DeErr("missing field code")
    ELSE IF Get(v.members, "code").t # "number" THEN DeErr("invalid type, expected i32")
    ELSE IF ~HasKey(v.members, "message") THEN DeErr("missing field message")
    ELSE IF Get(v.members, "message").t # "string" THEN DeErr("invalid type, expected a string")
    ELSE DeOk([code |-> Get(v.members, "code").int,
               message |-> Get(v.members, "message").s])

\* Deserialize for McpResponse (mcp/types.rs): "jsonrpc" and a u32 "id" are
\* required, "result" and "error" are optional.
DeserializeRemoteResponse(v) ==
    IF v.t # "object" THEN DeErr("invalid type, expected struct McpResponse")
    ELSE IF ~HasKey(v.members, "jsonrpc") THEN DeErr("missing field jsonrpc")
    ELSE IF Get(v.members, "jsonrpc").t # "string" THEN DeErr("invalid type, expected a string")
    ELSE IF Member(v.members, "result").some
            /\ ~DeserializeToolResult(Member(v.members, "result").v).ok
    THEN DeErr(DeserializeToolResult(Member(v.members, "result").v).msg)
    ELSE IF Member(v.members, "error").some
            /\ ~DeserializeRemoteError(Member(v.members, "error").v).ok
    THEN DeErr(DeserializeRemoteError(Member(v.members, "error").v).msg)
    ELSE IF ~HasKey(v.members, "id") THEN DeErr("missing field id")
    ELSE IF Get(v.members, "id").t # "number" \/ Get(v.members, "id").int < 0
    THEN DeErr("invalid type, expected u32")
    ELSE DeOk([jsonrpc |-> Get(v.members, "jsonrpc").s,
               result |-> IF Member(v.members, "result").some
                          THEN Some(DeserializeToolResult(Member(v.members, "result").v).v)
                          ELSE None,
               error |-> IF Member(v.members, "error").some
                         THEN Some(DeserializeRemoteError(Member(v.members, "error").v).v)
                         ELSE None,
               id |-> Get(v.members, "id").int])

\* serde_json::from_str on the body: the body is not JSON at all (json is
\* None), or its JSON value is deserialized.
ParseRemoteBody(body) ==
    IF ~body.json.some THEN DeErr("expected value at line 1 column 1")
    ELSE DeserializeRemoteResponse(body.json.v)

\* Display of reqwest::StatusCode: the code and its canonical reason.
StatusDisplay(status) == ToString(status.code) \o " " \o status.reason

\* The status check with !status.is_server_error() in the place of
\* status.is_success().
IsSuccess_NotServerError(status) == status.code < 500

\* StatusCode::is_success
IsSuccess(status) == status.code >= 200 /\ status.code < 300

\* Result<String>: Ok(text), or Err with the kind of the failure and the
\* message of the anyhow error.
Ok(text) == [ok |-> TRUE, text |-> text]
Err(kind, msg) == [ok |-> FALSE, kind |-> kind, msg |-> msg]

\* call_tool looking at the result before the error: a response that
\* carries both is taken for its result.
call_tool_ResultBeforeError(reply) ==
    IF reply.kind # "http" THEN Err("transport", reply.msg)
    ELSE IF ~IsSuccess(reply.status)
    THEN Err("status", "MCP Server error: " \o StatusDisplay(reply.status)
                       \o " - " \o reply.body.raw)
    ELSE LET parsed == ParseRemoteBody(reply.body) IN
    IF ~parsed.ok
    THEN Err("parse", "Failed to parse MCP response: " \o parsed.msg
                      \o " - body: " \o reply.body.raw)
    ELSE LET mcp_response == parsed.v IN
    IF ~mcp_response.result.some /\ mcp_response.error.some
    THEN Err("protocol", "MCP error " \o ToString(mcp_response.error.v.code)
                         \o ": " \o mcp_response.error.v.message)
    ELSE IF ~mcp_response.result.some
    THEN Err("shape", "MCP response missing result")
    ELSE LET result == mcp_response.result.v IN
    IF result.is_error
    THEN Err("tool", "MCP tool error: "
                     \o Join(Texts(result.content)))
    ELSE Ok(Join(Texts(TextItems(result.content))))

\* call_tool with a 2xx body that is not a response reported as a response
\* without a result.
call_tool_ParseFailureIsMissingResult(reply) ==
    IF reply.kind # "http" THEN Err("transport", reply.msg)
    ELSE IF ~IsSuccess(reply.status)
    THEN Err("status", "MCP Server error: " \o StatusDisplay(reply.status)
                       \o " - " \o reply.body.raw)
    ELSE LET parsed == ParseRemoteBody(reply.body) IN
    IF ~parsed.ok
    THEN Err("shape", "MCP response missing result")
    ELSE LET mcp_response == parsed.v IN
    IF mcp_response.error.some
    THEN Err("protocol", "MCP error " \o ToString(mcp_response.error.v.code)
                         \o ": " \o mcp_response.error.v.message)
    ELSE IF ~mcp_response.result.some
    THEN Err("shape", "MCP response missing result")
    ELSE LET result == mcp_response.result.v IN
    IF result.is_error
    THEN Err("tool", "MCP tool error: "
                     \o Join(Texts(result.content)))
    ELSE Ok(Join(Texts(TextItems(result.content))))

\* call_tool from the reply of the remote service on: reply is a transport
\* failure of send() or of text(), or a status with a body.
call_tool(reply) ==
    IF reply.kind # "http" THEN Err("transport", reply.msg)
    ELSE IF ~IsSuccess(reply.status)
    THEN Err("status", "MCP Server error: " \o StatusDisplay(reply.status)
                       \o " - " \o reply.body.raw)
    ELSE LET parsed == ParseRemoteBody(reply.body) IN
    IF ~parsed.ok
    THEN Err("parse", "Failed to parse MCP response: " \o parsed.msg
                      \o " - body: " \o reply.body.raw)
    ELSE LET mcp_response == parsed.v IN
    IF mcp_response.error.some
    THEN Err("protocol", "MCP error " \o ToString(mcp_response.error.v.code)
                         \o ": " \o mcp_response.error.v.message)
    ELSE IF ~mcp_response.result.some
    THEN Err("shape", "MCP response missing result")
    ELSE LET result == mcp_response.result.v IN
    IF result.is_error
    THEN Err("tool", "MCP tool error: "
                     \o Join(Texts(result.content)))
    ELSE Ok(Join(Texts(TextItems(result.content))))

\* Result<bool, String> of validate_token.
ValidOk(valid) == [ok |-> TRUE, valid |-> valid]
ValidErr(msg) == [ok |-> FALSE, msg |-> msg]

\* The request validate_token posts.
ProbeRequest ==
    JObj(<< <<"jsonrpc", JStr("2.0")>>,
            <<"method", JStr("system.listMethods")>>,
            <<"params", EmptyObject>>,
            <<"id", JInt(1)>> >>)

\* validate_token taking the token for valid on a success status only.
validate_token_OnlySuccessIsValid(reply) ==
    IF reply.kind # "http"
    THEN ValidErr("network request failed: " \o reply.msg)
    ELSE IF reply.status.code >= 200 /\ reply.status.code < 300
    THEN ValidOk(TRUE)
    ELSE ValidOk(FALSE)

\* validate_token from the reply of the remote service on: send() fails, or
\* a status arrives (the body is not read).  The message of the failure is a
\* Chinese text in the source ("network request failed"), rendered in
\* English here.
validate_token(reply) ==
    IF reply.kind # "http"
    THEN ValidErr("network request failed: " \o reply.msg)
    ELSE IF reply.status.code = 401
    THEN ValidOk(FALSE)
    ELSE ValidOk(TRUE)

\* The four client operations all posting the request of the first one.
ClientRequest_AlwaysFirstTool(tool) == OutboundRequest(ToolNames[1], EmptyObject)

\* get_available_coupons, auto_bind_coupons, get_my_coupons and
\* get_current_time: call_tool with the fixed tool name and json!({}).
ClientRequest(tool) == OutboundRequest(tool, EmptyObject)

(* --------------------- configuration (config/mod.rs) ------------------ *)

\* struct Config
Config(token, port, url) ==
    [token |-> token, mcp_server_port |-> port, mcp_server_url |-> url]

\* Config::default(): the derived Default.
DefaultConfig == Config("", None, None)

\* str::starts_with
StartsWith(s, p) == Len(s) >= Len(p) /\ SubSeq(s, 1, Len(p)) = p

\* char::is_whitespace on the characters the tokens of the model hold.
IsWhitespace(c) == c \in {" ", "\t", "\n", "\r"}

\* str::trim
RECURSIVE TrimStart(_)
TrimStart(s) ==
    IF Len(s) > 0 /\ IsWhitespace(SubSeq(s, 1, 1))
    THEN TrimStart(SubSeq(s, 2, Len(s))) ELSE s

RECURSIVE TrimEnd(_)
TrimEnd(s) ==
    IF Len(s) > 0 /\ IsWhitespace(SubSeq(s, Len(s), Len(s)))
    THEN TrimEnd(SubSeq(s, 1, Len(s) - 1)) ELSE s

Trim(s) == TrimEnd(TrimStart(s))

\* has_valid_token with the token taken as it is, untrimmed.
has_valid_token_Untrimmed(config) == Len(config.token) > 0

\* Config::has_valid_token
has_valid_token(config) == Len(Trim(config.token)) > 0

\* Serialize for Config: "token", and the two options when they are Some.
SerializeConfig(config) ==
    JObj(<< <<"token", JStr(config.token)>> >>
         \o (IF config.mcp_server_port.some
             THEN << <<"mcp_server_port", JInt(config.mcp_server_port.v)>> >> ELSE <<>>)
         \o (IF config.mcp_server_url.some
             THEN << <<"mcp_server_url", JStr(config.mcp_server_url.v)>> >> ELSE <<>>))

\* Deserialize for Config: "token" is a required string, the port an
\* optional u16, the URL an optional string; other members are ignored.
DeserializeConfig(v) ==
    IF v.t # "object" THEN DeErr("invalid type, expected struct Config")
    ELSE IF ~HasKey(v.members, "token") THEN DeErr("missing field token")
    ELSE IF Get(v.members, "token").t # "string" THEN DeErr("invalid type, expected a string")
    ELSE IF Member(v.members, "mcp_server_port").some
            /\ \/ Member(v.members, "mcp_server_port").v.t # "number"
               \/ Member(v.members, "mcp_server_port").v.int < 0
               \/ Member(v.members, "mcp_server_port").v.int > 65535
    THEN DeErr("invalid value, expected u16")
    ELSE IF Member(v.members, "mcp_server_url").some
            /\ Member(v.members, "mcp_server_url").v.t # "string"
    THEN DeErr("invalid type, expected a string")
    ELSE DeOk(Config(Get(v.members, "token").s,
                     IF Member(v.members, "mcp_server_port").some
                     THEN Some(Member(v.members, "mcp_server_port").v.int) ELSE None,
                     IF Member(v.members, "mcp_server_url").some
                     THEN Some(Member(v.members, "mcp_server_url").v.s) ELSE None))

\* A candidate file: it is not there; it is there and cannot be read (no
\* permission, a directory, not UTF-8); or it holds a text, which is JSON
\* (json is Some) or is not.
FileMissing == [kind |-> "missing"]
FileUnreadable == [kind |-> "unreadable"]
FileText(json) == [kind |-> "text", json |-> json]
FileOf(config) == FileText(Some(SerializeConfig(config)))

\* Path::exists
Exists(file) == file.kind # "missing"

\* The files and directories the configuration lives in: whether
\* std::env::current_dir() succeeds, the file of the current directory
\* (mcd-coupon-config.json) and the file of the user's configuration
\* directory (mcd-coupon-tui-rust/config.json), and whether each can be
\* written.  The user has a home directory: get_config_path finds its
\* directory.
Disk(current_dir_ok, cwd, user, cwd_writable, user_writable) ==
    [current_dir_ok |-> current_dir_ok, cwd |-> cwd, user |-> user,
     cwd_writable |-> cwd_writable, user_writable |-> user_writable]

\* Config::load_from_path: read_to_string, then serde_json::from_str.
load_from_path(file) ==
    IF file.kind # "text" THEN DeErr("cannot read the file")
    ELSE IF ~file.json.some THEN DeErr("cannot parse the file")
    ELSE IF ~DeserializeConfig(file.json.v).ok THEN DeErr("cannot parse the file")
    ELSE DeOk(DeserializeConfig(file.json.v).v)

\* Result<Config> of Config::load.
LoadOk(config) == [ok |-> TRUE, config |-> config]
LoadErr(msg) == [ok |-> FALSE, msg |-> msg]

\* Config::load with the user's file tried first.
load_UserFileFirst(disk) ==
    IF ~disk.current_dir_ok THEN LoadErr("current_dir failed")
    ELSE IF Exists(disk.user) /\ load_from_path(disk.user).ok
    THEN LoadOk(load_from_path(disk.user).v)
    ELSE IF Exists(disk.cwd) /\ load_from_path(disk.cwd).ok
    THEN LoadOk(load_from_path(disk.cwd).v)
    ELSE LoadOk(DefaultConfig)

\* Config::load: the file of the current directory, then the file of the
\* user's configuration directory, then the default.
load(disk) ==
    IF ~disk.current_dir_ok THEN LoadErr("current_dir failed")
    ELSE IF Exists(disk.cwd) /\ load_from_path(disk.cwd).ok
    THEN LoadOk(load_from_path(disk.cwd).v)
    ELSE IF Exists(disk.user) /\ load_from_path(disk.user).ok
    THEN LoadOk(load_from_path(disk.user).v)
    ELSE LoadOk(DefaultConfig)

\* Result<()> of Config::save with the files as they are afterwards.
Saved(ok, disk) == [ok |-> ok, disk |-> disk]

\* Config::save: the file of the user's configuration directory first,
\* the file of the current directory when that cannot be written.
save(config, disk) ==
    IF disk.user_writable
    THEN Saved(TRUE, [disk EXCEPT !.user = FileOf(config)])
    ELSE IF ~disk.current_dir_ok THEN Saved(FALSE, disk)
    ELSE IF disk.cwd_writable
    THEN Saved(TRUE, [disk EXCEPT !.cwd = FileOf(config)])
    ELSE Saved(FALSE, disk)

\* const MCP_SERVER_URL
MCP_SERVER_URL == "https://mcp.mcd.cn/mcp-servers/mcd-mcp"

\* McpClient::new, the reqwest client built.
McpClientNew(token) == [token |-> token, url |-> MCP_SERVER_URL]

\* McpServerState::new
McpServerStateNew(mcp_client, config) == [mcp_client |-> mcp_client, config |-> config]

(* ------------------------------ inputs -------------------------------- *)

\* The id member of the requests sent to the relay.
WireIds ==
    { Absent,
      Present(JNull),
      Present(JNum(<<"7">>)),
      Present(JNum(U32MaxDigits)),
      Present(JNum(<<"4", "2", "9", "4", "9", "6", "7", "2", "9", "6">>)),
      Present(JNum(<<"-", "1">>)),
      Present(JNum(<<"1", ".", "5">>)),
      Present(JChars(<<"7">>)),
      Present(JChars(<<"0", "0", "7">>)),
      Present(JChars(<<"+", "7">>)),
      Present(JChars(<<"a", "b", "c">>)),
      Present(JChars(<<>>)),
      Present(JBool(TRUE)),
      Present(JArr(<<>>)),
      Present(EmptyObject) }

\* More shapes of the id member, sent with one request only.
MoreWireIds ==
    { Present(JNum(<<"0">>)),
      Present(JNum(<<"7", ".", "0">>)),
      Present(JNum(<<"1", "e", "2">>)),
      Present(JChars(U32MaxDigits)),
      Present(JChars(<<"4", "2", "9", "4", "9", "6", "7", "2", "9", "6">>)),
      Present(JChars(<<" ", "7">>)),
      Present(JChars(<<"-", "1">>)),
      Present(JChars(<<"1", ".", "5">>)),
      Present(JBool(FALSE)),
      Present(JArr(<<JInt(7)>>)),
      Present(JObj(<< <<"id", JInt(7)>> >>)) }

WireMethods ==
    {"initialize", "tools/list", "tools/call", "system.listMethods",
     "system.describeMethod", "foo.bar"}

\* The names given in params: every tool bare and prefixed, every protocol
\* method, and a name that is neither.
WireNames ==
    {ToolNames[i] : i \in 1..Len(ToolNames)}
    \cup {"tools/call:" \o ToolNames[i] : i \in 1..Len(ToolNames)}
    \cup {ProtocolMethods[i] : i \in 1..Len(ProtocolMethods)}
    \cup {"nonexistent-tool"}

\* More names, each sent with one request only: a protocol method under the
\* tool prefix, the prefix alone, the prefix twice, another case, no name.
MoreWireNames ==
    {"tools/call:initialize", "tools/call:", "tools/call:tools/call:my-coupons",
     "My-Coupons", ""}

WireParams ==
    { Absent,
      Present(JNull),
      Present(JInt(5)),
      Present(JStr("my-coupons")),
      Present(EmptyObject),
      Present(JObj(<< <<"name", JInt(5)>> >>)),
      Present(JArr(<<>>)),
      Present(JArr(<<JStr("my-coupons")>>)),
      Present(JArr(<<JStr("my-coupons"), JNull>>)),
      Present(JObj(<< <<"name", JStr("available-coupons")>>,
                      <<"arguments", EmptyObject>> >>)),
      Present(JObj(<< <<"arguments", JObj(<< <<"x", JInt(1)>> >>)>>,
                      <<"name", JStr("my-coupons")>> >>)) }
    \cup {Present(JObj(<< <<"name", JStr(n)>> >>)) : n \in WireNames}

\* The requests sent to the relay: every method with every params and every
\* id under the version "2.0", a tool call with each of the further ids, a
\* description and a tool call with each of the further names, and every
\* method under another version.
WireRequests ==
    [jsonrpc : {"2.0"}, method : WireMethods, params : WireParams, id : WireIds]
    \cup [jsonrpc : {"2.0"}, method : {"tools/call"},
          params : {Present(JObj(<< <<"name", JStr("my-coupons")>> >>))},
          id : MoreWireIds]
    \cup [jsonrpc : {"2.0"}, method : {"system.describeMethod", "tools/call"},
          params : {Present(JObj(<< <<"name", JStr(n)>> >>)) : n \in MoreWireNames},
          id : {Present(JNum(<<"7">>))}]
    \cup [jsonrpc : {"1.0"}, method : WireMethods,
          params : {Absent,
                    Present(JObj(<< <<"name", JStr("initialize")>> >>)),
                    Present(JObj(<< <<"name", JStr("available-coupons")>> >>))},
          id : {Absent, Present(JNum(<<"7">>)), Present(JChars(<<"a", "b", "c">>))}]

\* Bodies the remote service may answer with: the text, and its JSON value
\* when the text is JSON.
TextItem(text) == JObj(<< <<"type", JStr("text")>>, <<"text", JStr(text)>> >>)
ImageItem == JObj(<< <<"type", JStr("image")>>, <<"data", JStr("iVBOR")>> >>)
Envelope(members) ==
    JObj(<< <<"jsonrpc", JStr("2.0")>> >> \o members \o << <<"id", JInt(1)>> >>)
ResultOf(content, flags) == <<"result", JObj(<< <<"content", JArr(content)>> >> \o flags)>>
ErrorOf(code, message) ==
    <<"error", JObj(<< <<"code", JInt(code)>>, <<"message", JStr(message)>> >>)>>
IsErrorFlag(b) == << <<"isError", JBool(b)>> >>

RemoteBodies ==
    { [raw |-> "<html>Bad Gateway</html>", json |-> None],
      [raw |-> "one text item",
       json |-> Some(Envelope(<< ResultOf(<<TextItem("## coupons")>>, <<>>) >>))],
      [raw |-> "two text items and an image",
       json |-> Some(Envelope(<< ResultOf(<<TextItem("line 1"), ImageItem, TextItem("line 2")>>,
                                          IsErrorFlag(FALSE)) >>))],
      [raw |-> "no content",
       json |-> Some(Envelope(<< ResultOf(<<>>, IsErrorFlag(FALSE)) >>))],
      [raw |-> "tool error",
       json |-> Some(Envelope(<< ResultOf(<<TextItem("token expired"), TextItem("retry later")>>,
                                          IsErrorFlag(TRUE)) >>))],
      [raw |-> "protocol error",
       json |-> Some(Envelope(<< ErrorOf(-32000, "server busy") >>))],
      [raw |-> "protocol error and result",
       json |-> Some(Envelope(<< ResultOf(<<TextItem("## coupons")>>, <<>>),
                                 ErrorOf(-32000, "server busy") >>))],
      [raw |-> "neither result nor error",
       json |-> Some(Envelope(<<>>))],
      [raw |-> "no id",
       json |-> Some(JObj(<< <<"jsonrpc", JStr("2.0")>>,
                             ResultOf(<<TextItem("## coupons")>>, <<>>) >>))] }

RemoteStatuses ==
    { [code |-> 200, reason |-> "OK"],
      [code |-> 401, reason |-> "Unauthorized"],
      [code |-> 500, reason |-> "Internal Server Error"] }

\* What the remote call comes to: send() fails, text() fails, or a status
\* and a body arrive.
RemoteReplies ==
    { [kind |-> "send_error", msg |-> "error sending request"],
      [kind |-> "body_error", msg |-> "error decoding response body"] }
    \cup [kind : {"http"}, status : RemoteStatuses, body : RemoteBodies]

(* ------------------------------- state -------------------------------- *)

VARIABLES
    pc,          \* per exchange: where its handler stands
    wire,        \* per exchange: the request as it arrived
    local,       \* per exchange: the id and tool the tool handler holds
    sent,        \* per exchange: the requests posted to the remote service
    reply,       \* per exchange: what the remote call came to
    http,        \* per exchange: the HTTP response, once produced
    state_lock,  \* Mutex<McpServerState>: the holder, then the waiters in order
    client_lock, \* Mutex<McpClient>: the holder, then the waiters in order
    server_state, \* McpServerState: the shared client and the configuration
    disk,        \* the configuration files and their directories
    process,     \* a process of the program from its start to its listening or exit
    client_op,   \* the last operation run on a Remote Tool Client directly
    round_trip,  \* the last tool result serialized and deserialized again
    web_state,   \* WebAppState behind its Mutex, once the web front-end runs
    web_lock,    \* Mutex<WebAppState>: the holder, then the waiters in order
    web_task,    \* per web request being served: where its handler stands
    web_served,  \* the number of web requests received
    app,         \* App of the terminal front-end, once it runs
    tui_calls,   \* the requests posted while the last key was handled
    tui_exit,    \* the exit status of the terminal front-end, once it is over
    tui_keys,    \* the number of key events read
    dropped,     \* the exchanges whose inbound connection the peer has closed
    config_op,   \* the last configuration saved, and what was loaded after it
    log_op       \* a log list, and every message added to it so far

\* The web requests served at a time, and the web requests received in all.
MaxWebHandlers == 2
MaxWebRequests == 2

WebHandlers == 1..MaxWebHandlers

\* No request is being served by the task.
WebIdle ==
    [at |-> "idle", route |-> "", payload |-> None, call |-> None, response |-> None]

\* The state of the web front-end.
web == <<web_state, web_lock, web_task, web_served>>

\* The key events read by the terminal front-end in all.
MaxKeys == 3

\* The state of the terminal front-end.
tui == <<app, tui_calls, tui_exit, tui_keys>>

\* The terminal front-end does not run.
TuiAtRest ==
    /\ app = None
    /\ tui_calls = <<>>
    /\ tui_exit = None
    /\ tui_keys = 0

\* The web front-end does not run.
WebAtRest ==
    /\ web_state = None
    /\ web_lock = <<>>
    /\ web_task = [h \in WebHandlers |-> WebIdle]
    /\ web_served = 0

\* The state outside the relay, which no relay handler touches.
front_ends == <<disk, process, client_op, round_trip, web, tui, config_op, log_op>>
outside_relay == <<front_ends, dropped>>

vars == <<pc, wire, local, sent, reply, http, state_lock, client_lock,
          server_state, disk, process, client_op, round_trip,
          web_state, web_lock, web_task, web_served,
          app, tui_calls, tui_exit, tui_keys, dropped, config_op, log_op>>

Slots == 1..MaxInFlight

\* The HTTP responses of handle_mcp_request: status 200 with an empty body
\* or with the serialized McpResponse.
EmptyBody == [kind |-> "empty"]
JsonBody(v) == [kind |-> "json", json |-> v]
HttpOk(body) == [status |-> 200, content_type |-> "application/json", body |-> body]
\* The answer of the Json extractor to a body that does not deserialize.
HttpRejected(msg) ==
    [status |-> 422, content_type |-> "text/plain", body |-> [kind |-> "text", text |-> msg]]

\* The configuration the relay is started with, and the file it was loaded
\* from.
StartupConfig == Config("Bearer relay-token", None, None)
StartupDisk == Disk(TRUE, FileOf(StartupConfig), FileMissing, TRUE, TRUE)

\* run_mcp_server_mode and run_mcp_server: the client is built from the
\* token of the configuration and keeps the URL it is built with.
StartupServerState ==
    McpServerStateNew(McpClientNew(StartupConfig.token), StartupConfig)

Init ==
    /\ pc = [r \in Slots |-> "idle"]
    /\ wire = [r \in Slots |-> None]
    /\ local = [r \in Slots |-> None]
    /\ sent = [r \in Slots |-> <<>>]
    /\ reply = [r \in Slots |-> None]
    /\ http = [r \in Slots |-> None]
    /\ state_lock = <<>>
    /\ client_lock = <<>>
    /\ server_state = StartupServerState
    /\ disk = StartupDisk
    /\ process = None
    /\ client_op = None
    /\ round_trip = None
    /\ WebAtRest
    /\ TuiAtRest
    /\ dropped = {}
    /\ config_op = None
    /\ log_op = None

\* wire, reply and http of a finished exchange are the record of what was
\* asked and answered; no handler reads them.  The record is taken off
\* (Deliver) before the relay takes its next step, so that at most one
\* finished exchange is on record at a time.
NothingToDeliver == \A q \in DOMAIN pc : pc[q] # "done"

\* A request that arrives takes the first free exchange.
Free(r) ==
    /\ pc[r] = "idle"
    /\ \A q \in DOMAIN pc : q < r => pc[q] # "idle"
    /\ NothingToDeliver

\* The body does not deserialize into McpRequest: the extractor answers and
\* handle_mcp_request is not entered.
Reject(r) ==
    /\ Free(r)
    /\ \E w \in WireRequests :
        /\ ~DeserializeRequest(w).ok
        /\ pc' = [pc EXCEPT ![r] = "done"]
        /\ wire' = [wire EXCEPT ![r] = Some(w)]
        /\ http' = [http EXCEPT ![r] = Some(HttpRejected(DeserializeRequest(w).msg))]
        /\ UNCHANGED <<outside_relay, server_state, local, sent, reply, state_lock, client_lock>>

\* handle_mcp_request for a request without id: an empty 200.
Notify(r) ==
    /\ Free(r)
    /\ \E w \in WireRequests :
        /\ DeserializeRequest(w).ok
        /\ ~DeserializeRequest(w).request.id.some
        /\ pc' = [pc EXCEPT ![r] = "done"]
        /\ wire' = [wire EXCEPT ![r] = Some(w)]
        /\ http' = [http EXCEPT ![r] = Some(HttpOk(EmptyBody))]
        /\ UNCHANGED <<outside_relay, server_state, local, sent, reply, state_lock, client_lock>>

\* The branch that answers without a remote call taking the server-state
\* lock for the time of its answer.
Answer_UnderStateLock(r) ==
    /\ Free(r)
    /\ state_lock = <<>>
    /\ \E w \in WireRequests :
        /\ DeserializeRequest(w).ok
        /\ DeserializeRequest(w).request.id.some
        /\ LET d == Dispatch(DeserializeRequest(w).request) IN
           /\ d.kind = "response"
           /\ http' = [http EXCEPT ![r] = Some(HttpOk(JsonBody(SerializeResponse(d.response))))]
        /\ pc' = [pc EXCEPT ![r] = "done"]
        /\ wire' = [wire EXCEPT ![r] = Some(w)]
        /\ UNCHANGED <<outside_relay, server_state, local, sent, reply, state_lock, client_lock>>

\* handle_mcp_request for a request with an id whose branch answers without
\* a remote call.
Answer(r) ==
    /\ Free(r)
    /\ \E w \in WireRequests :
        /\ DeserializeRequest(w).ok
        /\ DeserializeRequest(w).request.id.some
        /\ LET d == Dispatch(DeserializeRequest(w).request) IN
           /\ d.kind = "response"
           /\ http' = [http EXCEPT ![r] = Some(HttpOk(JsonBody(SerializeResponse(d.response))))]
        /\ pc' = [pc EXCEPT ![r] = "done"]
        /\ wire' = [wire EXCEPT ![r] = Some(w)]
        /\ UNCHANGED <<outside_relay, server_state, local, sent, reply, state_lock, client_lock>>

\* handle_mcp_request for a tools/call of one of the four tools: the tool
\* handler starts and asks for the server-state lock.
EnterTool(r) ==
    /\ Free(r)
    /\ \E w \in WireRequests :
        /\ DeserializeRequest(w).ok
        /\ DeserializeRequest(w).request.id.some
        /\ LET d == Dispatch(DeserializeRequest(w).request) IN
           /\ d.kind = "tool"
           /\ local' = [local EXCEPT ![r] = Some([id |-> d.id, tool |-> d.tool])]
        /\ pc' = [pc EXCEPT ![r] = "wait_state"]
        /\ wire' = [wire EXCEPT ![r] = Some(w)]
        /\ state_lock' = Append(state_lock, r)
        /\ UNCHANGED <<outside_relay, server_state, sent, reply, http, client_lock>>

\* The lock granted to every task that asked for it.
Holds_NotExclusive(lock, r) == \E i \in 1..Len(lock) : lock[i] = r

\* tokio::sync::Mutex grants the lock to one task at a time, in the order
\* the tasks asked for it: the first of the queue holds it.
Holds(lock, r) == Len(lock) > 0 /\ Head(lock) = r

\* state.lock().await returns; the handler asks for the client lock.
LockState(r) ==
    /\ pc[r] = "wait_state" /\ NothingToDeliver
    /\ Holds(state_lock, r)
    /\ pc' = [pc EXCEPT ![r] = "wait_client"]
    /\ client_lock' = Append(client_lock, r)
    /\ UNCHANGED <<outside_relay, server_state, wire, local, sent, reply, http, state_lock>>

\* state.mcp_client.lock().await returns and the client operation of the
\* tool posts its request.
LockClientAndCall(r) ==
    /\ pc[r] = "wait_client" /\ NothingToDeliver
    /\ Holds(client_lock, r)
    /\ pc' = [pc EXCEPT ![r] = "calling"]
    /\ sent' = [sent EXCEPT ![r] = Append(@, ClientRequest(local[r].v.tool))]
    /\ UNCHANGED <<outside_relay, server_state, wire, local, reply, http, state_lock, client_lock>>

\* The match of the tool handler with the failure reported as a JSON-RPC
\* error (-32603, internal error).
ToolResponse_ProtocolError(id, result) ==
    IF result.ok
    THEN success_tool_result(id, <<McpContentText(result.text)>>)
    ELSE McpResponseError(id, -32603, result.msg)

\* The match of the tool handler on the result of the client operation.
ToolResponse(id, result) ==
    IF result.ok
    THEN success_tool_result(id, <<McpContentText(result.text)>>)
    ELSE tool_error(id, result.msg)

\* The remote call returns, a failed call being answered with the status 500
\* and the message as plain text.
RemoteReturn_FailureIs500(r) ==
    /\ pc[r] = "calling" /\ NothingToDeliver
    /\ \E answer \in RemoteReplies :
        /\ reply' = [reply EXCEPT ![r] = Some(answer)]
        /\ http' = [http EXCEPT ![r] =
               IF call_tool(answer).ok
               THEN Some(HttpOk(JsonBody(SerializeResponse(
                        ToolResponse(local[r].v.id, call_tool(answer))))))
               ELSE Some([status |-> 500, content_type |-> "text/plain",
                          body |-> [kind |-> "text", text |-> call_tool(answer).msg]])]
    /\ pc' = [pc EXCEPT ![r] = "done"]
    /\ state_lock' = Tail(state_lock)
    /\ client_lock' = Tail(client_lock)
    /\ UNCHANGED <<outside_relay, server_state, wire, local, sent>>

\* The remote call returns, the handler dropping the token of the shared
\* client and of the configuration when the remote service answers 401.
RemoteReturn_ForgetsRejectedToken(r) ==
    /\ pc[r] = "calling" /\ NothingToDeliver
    /\ \E answer \in RemoteReplies :
        /\ reply' = [reply EXCEPT ![r] = Some(answer)]
        /\ http' = [http EXCEPT ![r] = Some(HttpOk(JsonBody(SerializeResponse(
                       ToolResponse(local[r].v.id, call_tool(answer))))))]
        /\ server_state' =
               IF answer.kind = "http" /\ answer.status.code = 401
               THEN [server_state EXCEPT !.mcp_client.token = "", !.config.token = ""]
               ELSE server_state
    /\ pc' = [pc EXCEPT ![r] = "done"]
    /\ state_lock' = Tail(state_lock)
    /\ client_lock' = Tail(client_lock)
    /\ UNCHANGED <<outside_relay, wire, local, sent>>

\* The remote call returns, the handler keeping the client guard on the
\* path of a failed call.
RemoteReturn_KeepsClientLockOnFailure(r) ==
    /\ pc[r] = "calling" /\ NothingToDeliver
    /\ \E answer \in RemoteReplies :
        /\ reply' = [reply EXCEPT ![r] = Some(answer)]
        /\ http' = [http EXCEPT ![r] = Some(HttpOk(JsonBody(SerializeResponse(
                       ToolResponse(local[r].v.id, call_tool(answer))))))]
        /\ client_lock' = IF call_tool(answer).ok THEN Tail(client_lock) ELSE client_lock
    /\ pc' = [pc EXCEPT ![r] = "done"]
    /\ state_lock' = Tail(state_lock)
    /\ UNCHANGED <<outside_relay, server_state, wire, local, sent>>

\* The remote call returns: the tool handler builds its response, both
\* guards are dropped, and handle_mcp_request answers.
RemoteReturn(r) ==
    /\ pc[r] = "calling" /\ NothingToDeliver
    /\ \E answer \in RemoteReplies :
        /\ reply' = [reply EXCEPT ![r] = Some(answer)]
        /\ http' = [http EXCEPT ![r] = Some(HttpOk(JsonBody(SerializeResponse(
                       ToolResponse(local[r].v.id, call_tool(answer))))))]
    /\ pc' = [pc EXCEPT ![r] = "done"]
    /\ state_lock' = Tail(state_lock)
    /\ client_lock' = Tail(client_lock)
    /\ UNCHANGED <<outside_relay, server_state, wire, local, sent>>

\* The response has been delivered: the exchange is over.
Deliver(r) ==
    /\ pc[r] = "done"
    /\ pc' = [pc EXCEPT ![r] = "idle"]
    /\ wire' = [wire EXCEPT ![r] = None]
    /\ local' = [local EXCEPT ![r] = None]
    /\ sent' = [sent EXCEPT ![r] = <<>>]
    /\ reply' = [reply EXCEPT ![r] = None]
    /\ http' = [http EXCEPT ![r] = None]
    /\ UNCHANGED <<outside_relay, server_state, state_lock, client_lock>>

Next ==
    \E r \in Slots :
        \/ Reject(r)
        \/ Notify(r)
        \/ Answer(r)
        \/ EnterTool(r)
        \/ LockState(r)
        \/ LockClientAndCall(r)
        \/ RemoteReturn(r)
        \/ Deliver(r)

Spec == Init /\ [][Next]_vars

(* ------------------ the relay with concurrent requests ---------------- *)

\* Number of relay requests in flight at the same time when the relay is
\* looked at under contention for its locks.
MaxConcurrent == 2

ConcurrentSlots == 1..MaxConcurrent

ToolCallOf(name, id) ==
    [jsonrpc |-> "2.0", method |-> "tools/call",
     params |-> Present(JObj(<< <<"name", JStr(name)>> >>)), id |-> id]

\* The requests sent under contention: tool calls of two tools (the id a
\* number, a string), a tool call of no tool, requests of the three static
\* methods (without params and with params the method has no use for), a
\* notification and a request that does not deserialize.
ConcurrentRequests ==
    { ToolCallOf("my-coupons", Present(JNum(<<"7">>))),
      ToolCallOf("now-time-info", Present(JChars(<<"7">>))),
      ToolCallOf("nonexistent-tool", Present(JNum(<<"7">>))),
      ToolCallOf("my-coupons", Absent),
      [jsonrpc |-> "2.0", method |-> "initialize", params |-> Absent,
       id |-> Present(JNum(<<"7">>))],
      [jsonrpc |-> "2.0", method |-> "tools/list", params |-> Absent,
       id |-> Present(JBool(TRUE))],
      [jsonrpc |-> "2.0", method |-> "tools/list",
       params |-> Present(JArr(<<JStr("my-coupons")>>)),
       id |-> Present(JChars(<<"7">>))],
      [jsonrpc |-> "2.0", method |-> "system.listMethods",
       params |-> Present(JInt(5)), id |-> Present(JNum(<<"7">>))] }

\* What the remote calls come to under contention: a transport failure, a
\* result, a non-2xx status, a tool error.
ConcurrentReplies ==
    { [kind |-> "send_error", msg |-> "error sending request"] }
    \cup { a \in RemoteReplies :
              /\ a.kind = "http"
              /\ \/ a.status.code = 200 /\ a.body.raw \in {"one text item", "tool error"}
                 \/ a.status.code = 500 /\ a.body.raw = "<html>Bad Gateway</html>" }

InitConcurrent ==
    /\ pc = [r \in ConcurrentSlots |-> "idle"]
    /\ wire = [r \in ConcurrentSlots |-> None]
    /\ local = [r \in ConcurrentSlots |-> None]
    /\ sent = [r \in ConcurrentSlots |-> <<>>]
    /\ reply = [r \in ConcurrentSlots |-> None]
    /\ http = [r \in ConcurrentSlots |-> None]
    /\ state_lock = <<>>
    /\ client_lock = <<>>
    /\ server_state = StartupServerState
    /\ disk = StartupDisk
    /\ process = None
    /\ client_op = None
    /\ round_trip = None
    /\ WebAtRest
    /\ TuiAtRest
    /\ dropped = {}
    /\ config_op = None
    /\ log_op = None

\* The request taken in by this step is one of the requests sent under
\* contention.
TakesIn(r) == wire'[r] \in {Some(w) : w \in ConcurrentRequests}

ConcurrentReject(r) == Reject(r) /\ TakesIn(r)

ConcurrentNotify(r) == Notify(r) /\ TakesIn(r)

ConcurrentAnswer(r) == Answer(r) /\ TakesIn(r)

ConcurrentEnterTool(r) == EnterTool(r) /\ TakesIn(r)

ConcurrentRemoteReturn(r) ==
    RemoteReturn(r) /\ reply'[r] \in {Some(a) : a \in ConcurrentReplies}

NextConcurrent ==
    \E r \in ConcurrentSlots :
        \/ ConcurrentReject(r)
        \/ ConcurrentNotify(r)
        \/ ConcurrentAnswer(r)
        \/ ConcurrentEnterTool(r)
        \/ LockState(r)
        \/ LockClientAndCall(r)
        \/ ConcurrentRemoteReturn(r)
        \/ Deliver(r)

ConcurrentSpec == InitConcurrent /\ [][NextConcurrent]_vars

\* The scheduling the relay runs under: the runtime polls every task that
\* has been woken, both mutexes grant in the order of asking, the remote
\* call ends (the client's TIMEOUT bounds it), and a produced response is
\* written out.  A handler takes no step while a finished exchange is being
\* written out, so its steps are enabled again and again rather than without
\* interruption: the fairness on them is strong.  No fairness is put on the
\* arrival of requests.
FairConcurrentSpec ==
    /\ ConcurrentSpec
    /\ \A r \in ConcurrentSlots :
          /\ SF_vars(LockState(r))
          /\ SF_vars(LockClientAndCall(r))
          /\ SF_vars(ConcurrentRemoteReturn(r))
          /\ WF_vars(Deliver(r))

(* -------------- the inbound connection closed by its peer ------------- *)

\* The handler of the exchange is at one of its awaits.
Awaiting(r) == pc[r] \in {"wait_state", "wait_client", "calling"}

\* The exchange is over and its slot is free again.
Over(r) ==
    /\ pc' = [pc EXCEPT ![r] = "idle"]
    /\ wire' = [wire EXCEPT ![r] = None]
    /\ local' = [local EXCEPT ![r] = None]
    /\ sent' = [sent EXCEPT ![r] = <<>>]
    /\ reply' = [reply EXCEPT ![r] = None]
    /\ http' = [http EXCEPT ![r] = None]
    /\ dropped' = dropped \ {r}

\* The peer closes the connection of an exchange whose handler is at an
\* await.
DropConnection(r) ==
    /\ Awaiting(r) /\ NothingToDeliver
    /\ r \notin dropped
    /\ dropped' = dropped \cup {r}
    /\ UNCHANGED <<front_ends, server_state, pc, wire, local, sent, reply, http,
                   state_lock, client_lock>>

\* The server sees the closed connection before the handler is over and
\* drops the connection's task: the handler's future is dropped at its
\* await with everything it owns, which are the pending lock requests, the
\* guards it holds and the request of the remote call (the tool handlers
\* await the remote call in their own future; nothing is spawned).
CancelHandler(r) ==
    /\ Awaiting(r) /\ NothingToDeliver
    /\ r \in dropped
    /\ Over(r)
    /\ state_lock' = SelectSeq(state_lock, LAMBDA q : q # r)
    /\ client_lock' = SelectSeq(client_lock, LAMBDA q : q # r)
    /\ UNCHANGED <<front_ends, server_state>>

\* The handler ran to its end before the closed connection was seen: the
\* response cannot be written and is discarded.
Discard(r) ==
    /\ pc[r] = "done"
    /\ r \in dropped
    /\ Over(r)
    /\ UNCHANGED <<front_ends, server_state, state_lock, client_lock>>

\* The response is written out on a connection that is open.
DeliverOpen(r) == Deliver(r) /\ r \notin dropped

NextDrop ==
    \E r \in ConcurrentSlots :
        \/ ConcurrentReject(r)
        \/ ConcurrentNotify(r)
        \/ ConcurrentAnswer(r)
        \/ ConcurrentEnterTool(r)
        \/ LockState(r)
        \/ LockClientAndCall(r)
        \/ ConcurrentRemoteReturn(r)
        \/ DropConnection(r)
        \/ CancelHandler(r)
        \/ Discard(r)
        \/ DeliverOpen(r)

DropSpec == InitConcurrent /\ [][NextDrop]_vars

(* ------------- the Remote Tool Client run by a front-end -------------- *)

\* The statuses the remote service may answer with: the ends of the 2xx
\* range, the status 401 and other 3xx, 4xx and 5xx statuses.
ClientStatuses ==
    RemoteStatuses
    \cup { [code |-> 204, reason |-> "No Content"],
           [code |-> 299, reason |-> "<unknown status code>"],
           [code |-> 300, reason |-> "Multiple Choices"],
           [code |-> 403, reason |-> "Forbidden"],
           [code |-> 404, reason |-> "Not Found"],
           [code |-> 503, reason |-> "Service Unavailable"] }

\* A content item of another type that carries a text, and an item of type
\* text that carries none.
CaptionedImageItem ==
    JObj(<< <<"type", JStr("image")>>, <<"text", JStr("caption")>>,
            <<"data", JStr("iVBOR")>> >>)
BareTextItem == JObj(<< <<"type", JStr("text")>> >>)

\* The bodies the remote service may answer with.
ClientBodies ==
    RemoteBodies
    \cup { [raw |-> "text, captioned image, text without text, text",
            json |-> Some(Envelope(<< ResultOf(<<TextItem("first"), CaptionedImageItem,
                                                 BareTextItem, TextItem("last")>>,
                                               IsErrorFlag(FALSE)) >>))],
           [raw |-> "images only",
            json |-> Some(Envelope(<< ResultOf(<<ImageItem, CaptionedImageItem>>, <<>>) >>))],
           [raw |-> "tool error with a captioned image",
            json |-> Some(Envelope(<< ResultOf(<<BareTextItem, CaptionedImageItem,
                                                 TextItem("quota exceeded"), ImageItem>>,
                                               IsErrorFlag(TRUE)) >>))],
           [raw |-> "tool error without content",
            json |-> Some(Envelope(<< ResultOf(<<>>, IsErrorFlag(TRUE)) >>))],
           [raw |-> "tool error and protocol error",
            json |-> Some(Envelope(<< ResultOf(<<TextItem("token expired")>>, IsErrorFlag(TRUE)),
                                      ErrorOf(-32001, "unauthorized") >>))],
           [raw |-> "null result",
            json |-> Some(Envelope(<< <<"result", JNull>> >>))],
           [raw |-> "null error and a result",
            json |-> Some(Envelope(<< ResultOf(<<TextItem("## coupons")>>, <<>>),
                                      <<"error", JNull>> >>))],
           [raw |-> "result without content",
            json |-> Some(Envelope(<< <<"result", JObj(IsErrorFlag(FALSE))>> >>))],
           [raw |-> "an array",
            json |-> Some(JArr(<<>>))] }

\* What send() fails with: the host is unreachable, the TLS handshake
\* fails, the TIMEOUT passes.
SendErrors ==
    { [kind |-> "send_error", msg |-> "error sending request"],
      [kind |-> "send_error", msg |-> "error sending request: invalid peer certificate"],
      [kind |-> "send_error", msg |-> "operation timed out"] }

\* What the probe of validate_token comes to.
ProbeReplies ==
    SendErrors
    \cup [kind : {"http"}, status : ClientStatuses,
          body : {b \in ClientBodies : b.raw \in {"<html>Bad Gateway</html>", "one text item"}}]

\* What a remote call of call_tool comes to.
ClientReplies ==
    SendErrors
    \cup { [kind |-> "body_error", msg |-> "error decoding response body"] }
    \cup [kind : {"http"}, status : ClientStatuses, body : ClientBodies]

\* The state of the relay, which the front-ends do not have.
relay == <<pc, wire, local, sent, reply, http, state_lock, client_lock, server_state,
          dropped>>

\* The state that no operation of the client touches.
outside_client == <<relay, disk, process, round_trip, web, tui, config_op, log_op>>

\* A front-end runs validate_token on its client.
ValidateToken ==
    /\ \E answer \in ProbeReplies :
          client_op' = Some([op |-> "validate_token",
                             request |-> ProbeRequest,
                             reply |-> answer,
                             outcome |-> validate_token(answer)])
    /\ UNCHANGED outside_client

\* A front-end runs one of the four client operations, each of which is
\* call_tool with its tool name.
CallClientOperation ==
    /\ \E i \in 1..Len(ToolNames), answer \in ClientReplies :
          client_op' = Some([op |-> "call_tool",
                             request |-> ClientRequest(ToolNames[i]),
                             reply |-> answer,
                             outcome |-> call_tool(answer)])
    /\ UNCHANGED outside_client

ClientNext == ValidateToken \/ CallClientOperation

ClientSpec == Init /\ [][ClientNext]_vars

(* ----------- tool results from the relay to a client and back --------- *)

\* McpContent::text_with_data
McpContentTextWithData(content, data) ==
    [content_type |-> "text", text |-> Some(content), data |-> Some(data)]

\* McpContent::data
McpContentData(data) ==
    [content_type |-> "data", text |-> None, data |-> Some(data)]

\* The texts and the data the content items are built from.
ItemTexts == {"", "first", "line 1\nline 2"}
ItemData == {JStr("rows"), JObj(<< <<"count", JInt(2)>> >>)}

\* The content items the three constructors of McpContent build.
ContentItems ==
    {McpContentText(t) : t \in ItemTexts}
    \cup {McpContentTextWithData(t, d) : t \in ItemTexts, d \in ItemData}
    \cup {McpContentData(d) : d \in ItemData}

\* The tool results of the relay: up to two content items, the flag either
\* way.
ToolResults ==
    [content : {<<>>} \cup {<<c>> : c \in ContentItems}
                      \cup {<<c, d>> : c \in ContentItems, d \in ContentItems},
     is_error : BOOLEAN]

\* The state that the round trip leaves alone.
outside_round_trip == <<relay, disk, process, client_op, web, tui, config_op, log_op>>

\* serde_json::to_value on a McpToolResult of the relay, then
\* serde_json::from_value into the McpToolResult of the client, the one
\* Deserialize there is for a tool result.
RoundTripToolResult ==
    /\ \E tr \in ToolResults :
          round_trip' = Some([value |-> tr,
                              json |-> SerializeToolResult(tr),
                              back |-> DeserializeToolResult(SerializeToolResult(tr))])
    /\ UNCHANGED outside_round_trip

RoundTripNext == RoundTripToolResult

RoundTripSpec == Init /\ [][RoundTripNext]_vars

(* ---------------------- the start of a process (main.rs) -------------- *)

\* The configurations found in files: with a token, with tokens that are
\* blank or empty, with a token in blanks.
StoredConfigs ==
    { Config("Bearer abc", None, None),
      Config(" \t", Some(9000), None),
      Config("", None, Some("http://localhost:3000")),
      Config(" Bearer xyz ", Some(9000), None) }

\* What a candidate file may be: missing, unreadable, not JSON, JSON without
\* a token, JSON with a port that is no u16, or a stored configuration.
CandidateFiles ==
    { FileMissing,
      FileUnreadable,
      FileText(None),
      FileText(Some(JObj(<< <<"mcp_server_port", JInt(9000)>> >>))),
      FileText(Some(JObj(<< <<"token", JStr("Bearer abc")>>,
                            <<"mcp_server_port", JInt(70000)>> >>))) }
    \cup {FileOf(c) : c \in StoredConfigs}

\* The files a process may find at its start.
Disks ==
    {Disk(c, f, g, TRUE, TRUE) : c \in BOOLEAN, f \in CandidateFiles, g \in CandidateFiles}

\* The state that the start of a process leaves alone.
outside_process == <<relay, disk, client_op, round_trip, web, tui, config_op, log_op>>

\* No front-end has run an operation.
FrontEndsAtRest == client_op = None /\ round_trip = None /\ WebAtRest /\ TuiAtRest

InitStartup ==
    /\ pc = [r \in Slots |-> "idle"]
    /\ wire = [r \in Slots |-> None]
    /\ local = [r \in Slots |-> None]
    /\ sent = [r \in Slots |-> <<>>]
    /\ reply = [r \in Slots |-> None]
    /\ http = [r \in Slots |-> None]
    /\ state_lock = <<>>
    /\ client_lock = <<>>
    /\ server_state = StartupServerState
    /\ dropped = {}
    /\ config_op = None
    /\ log_op = None
    /\ disk \in Disks
    /\ process = None
    /\ FrontEndsAtRest

\* A process: its mode, what Config::load returned, the lines printed, the
\* port listened on, the requests sent to the remote service, and the exit
\* status once it has exited.
Process(mode, loaded, printed, listener, requests, exit) ==
    Some([mode |-> mode, loaded |-> loaded, printed |-> printed,
          listener |-> listener, requests |-> requests, exit |-> exit])

\* main returns Err: the error is printed by the runtime and the status is 1.
ExitFailure == Some(1)
ExitSuccess == Some(0)

\* run_tui_mode and web::run up to their Config::load()?: a failed load
\* ends the process with the error.
LoadAtStart ==
    /\ process = None
    /\ \E mode \in {"tui", "html"} :
          process' = Process(mode, load(disk), <<>>, None, <<>>,
                             IF load(disk).ok THEN None ELSE ExitFailure)
    /\ UNCHANGED outside_process

\* run_mcp_server_mode, and run_mcp_server up to axum::serve: build is
\* whether McpClient::new gets its reqwest client built, bind whether the
\* port can be bound.
RunMcpServerMode ==
    /\ process = None
    /\ \E build \in BOOLEAN, bind \in BOOLEAN :
          LET loaded == load(disk) IN
          process' =
             IF ~loaded.ok
             THEN Process("mcpserver", loaded, <<>>, None, <<>>, ExitFailure)
             ELSE IF ~has_valid_token(loaded.config)
             THEN Process("mcpserver", loaded,
                          <<"error: no valid MCP token found",
                            "set a valid token in the configuration file first, or get one in another mode",
                            "configuration file: mcd-coupon-tui-rust/config.json">>,
                          None, <<>>, ExitSuccess)
             ELSE IF ~build
             THEN Process("mcpserver", loaded,
                          <<"failed to initialize the MCP client: builder error">>,
                          None, <<>>, ExitSuccess)
             ELSE LET port == IF loaded.config.mcp_server_port.some
                              THEN loaded.config.mcp_server_port.v ELSE 8080
                  IN  IF ~bind
                      THEN Process("mcpserver", loaded,
                                   <<"MCP server starting on port " \o ToString(port)>>,
                                   None, <<>>, ExitFailure)
                      ELSE Process("mcpserver", loaded,
                                   <<"MCP server starting on port " \o ToString(port)>>,
                                   Some(port), <<>>, None)
    /\ UNCHANGED outside_process

\* The process is over, or serves for good: another one starts on the same
\* files.
StartAgain ==
    /\ process # None
    /\ process' = None
    /\ UNCHANGED outside_process

StartupNext == LoadAtStart \/ RunMcpServerMode \/ StartAgain

StartupSpec == InitStartup /\ [][StartupNext]_vars

(* ------------- a configuration saved and loaded again ---------------- *)

\* The files with every combination of what exists and what can be written.
ConfigDisks ==
    {Disk(TRUE, f, g, cw, uw) :
        f \in CandidateFiles, g \in CandidateFiles, cw \in BOOLEAN, uw \in BOOLEAN}

\* The state that saving and loading a configuration leave alone.
outside_config == <<relay, process, client_op, round_trip, web, tui, log_op>>

InitConfig ==
    /\ pc = [r \in Slots |-> "idle"]
    /\ wire = [r \in Slots |-> None]
    /\ local = [r \in Slots |-> None]
    /\ sent = [r \in Slots |-> <<>>]
    /\ reply = [r \in Slots |-> None]
    /\ http = [r \in Slots |-> None]
    /\ state_lock = <<>>
    /\ client_lock = <<>>
    /\ server_state = StartupServerState
    /\ dropped = {}
    /\ process = None
    /\ FrontEndsAtRest
    /\ disk \in ConfigDisks
    /\ config_op = None
    /\ log_op = None

\* A configuration saved: the configuration, whether save returned Ok, and
\* what the next load returns once it has run.
ConfigOp(config, saved, loaded) ==
    Some([config |-> config, saved |-> saved, loaded |-> loaded])

\* config.save() on a configuration with its token set, as the token
\* handlers do, or with any stored configuration.
SaveConfig ==
    /\ \E config \in StoredConfigs :
          LET result == save(config, disk) IN
          /\ disk' = result.disk
          /\ config_op' = ConfigOp(config, result.ok, None)
    /\ UNCHANGED outside_config

\* reset_token: the loaded configuration saved with its token emptied (a
\* failed load leaves the files alone).
SaveReset ==
    /\ load(disk).ok
    /\ LET config == [load(disk).config EXCEPT !.token = ""]
           result == save(config, disk)
       IN  /\ disk' = result.disk
           /\ config_op' = ConfigOp(config, result.ok, None)
    /\ UNCHANGED outside_config

\* The next Config::load.
LoadNext ==
    /\ config_op # None
    /\ config_op.v.loaded = None
    /\ config_op' = ConfigOp(config_op.v.config, config_op.v.saved, Some(load(disk)))
    /\ UNCHANGED <<outside_config, disk>>

ConfigNext == SaveConfig \/ SaveReset \/ LoadNext

ConfigSpec == InitConfig /\ [][ConfigNext]_vars

(* ----------------------- web front-end (web/mod.rs) ------------------- *)

\* The number of log lines add_log keeps.
LogLimit == 100

\* add_log keeping the oldest lines: the new line is the one dropped.
add_log_DropsNewest(logs, message) ==
    IF Len(logs) + 1 > LogLimit THEN logs
    ELSE Append(logs, message)

\* WebAppState::add_log and App::add_log: push, then drop the oldest line
\* when more than LogLimit are held.
add_log(logs, message) ==
    IF Len(logs) + 1 > LogLimit THEN Tail(Append(logs, message))
    ELSE Append(logs, message)

\* add_log for each message in turn.
RECURSIVE add_logs(_, _)
add_logs(logs, messages) ==
    IF Len(messages) = 0 THEN logs
    ELSE add_logs(add_log(logs, Head(messages)), Tail(messages))

\* str::find: the first position of the part (from 1), 0 when it is not
\* there.
Find(whole, part) ==
    LET at == {i \in 1..(Len(whole) - Len(part) + 1) :
                  SubSeq(whole, i, i + Len(part) - 1) = part}
    IN  IF at = {} THEN 0 ELSE CHOOSE i \in at : \A j \in at : i <= j

\* str::lines: the text cut at its line feeds, a line feed at the end
\* closing the last line.
RECURSIVE Lines(_)
Lines(text) ==
    IF Len(text) = 0 THEN <<>>
    ELSE LET feed == Find(text, "\n") IN
         IF feed = 0 THEN <<text>>
         ELSE <<SubSeq(text, 1, feed - 1)>> \o Lines(SubSeq(text, feed + 1, Len(text)))

\* str::trim_start_matches
RECURSIVE trim_start_matches(_, _)
trim_start_matches(s, p) ==
    IF StartsWith(s, p) THEN trim_start_matches(SubSeq(s, Len(p) + 1, Len(s)), p)
    ELSE s

\* struct Coupon, and the fields gathered for the coupon being read.
NoCoupon ==
    [title |-> "", price |-> "", expiry |-> "", receive_time |-> "",
     tags |-> "", image_url |-> ""]

\* The value after the label of a detail line.
Detail(line, label) == Trim(trim_start_matches(line, label))

\* The src of an <img> line, when it has one that is closed.
ImageUrl(line, current) ==
    LET start == Find(line, "src=\"") IN
    IF start = 0 THEN current
    ELSE LET rest == SubSeq(line, start + 5, Len(line))
             end == Find(rest, "\"")
         IN  IF end = 0 THEN current ELSE SubSeq(rest, 1, end - 1)

\* The loop of parse_coupons_from_markdown over the lines: current is the
\* coupon being read, its title empty before the first title line.  The
\* labels are Chinese in the source.
RECURSIVE ParseLines(_, _)
ParseLines(lines, current) ==
    IF Len(lines) = 0
    THEN (IF current.title # "" THEN <<current>> ELSE <<>>)
    ELSE LET line == Trim(Head(lines))
             rest == Tail(lines)
         IN  IF line = "" \/ StartsWith(line, "# ") \/ StartsWith(line, "total ")
             THEN ParseLines(rest, current)
             ELSE IF StartsWith(line, "## ")
             THEN (IF current.title # "" THEN <<current>> ELSE <<>>)
                  \o ParseLines(rest, [NoCoupon EXCEPT
                                          !.title = trim_start_matches(line, "## ")])
             ELSE IF StartsWith(line, "- **offer**:")
             THEN ParseLines(rest, [current EXCEPT !.price = Detail(line, "- **offer**:")])
             ELSE IF StartsWith(line, "- **valid**:")
             THEN ParseLines(rest, [current EXCEPT !.expiry = Detail(line, "- **valid**:")])
             ELSE IF StartsWith(line, "- **claimed**:")
             THEN ParseLines(rest, [current EXCEPT
                                      !.receive_time = Detail(line, "- **claimed**:")])
             ELSE IF StartsWith(line, "- **tags**:")
             THEN ParseLines(rest, [current EXCEPT !.tags = Detail(line, "- **tags**:")])
             ELSE IF StartsWith(line, "<img")
             THEN ParseLines(rest, [current EXCEPT
                                      !.image_url = ImageUrl(line, current.image_url)])
             ELSE ParseLines(rest, current)

parse_coupons_from_markdown(text) == ParseLines(Lines(text), NoCoupon)

\* struct WebAppState (the template engine left out).
WebAppState(mcp_client, config, logs, coupons) ==
    [mcp_client |-> mcp_client, config |-> config, logs |-> logs, coupons |-> coupons]

\* WebAppState::new
WebAppStateNew(config) == WebAppState(None, config, <<"application started...">>, <<>>)

\* run(): the state after the saved token has been looked at; build is
\* whether McpClient::new gets its reqwest client built.
WebStartup(config, build) ==
    LET state == WebAppStateNew(config) IN
    IF ~has_valid_token(config) THEN state
    ELSE IF build
    THEN [state EXCEPT !.mcp_client = Some(McpClientNew(config.token)),
                       !.logs = add_log(@, "loaded the saved token")]
    ELSE [state EXCEPT !.logs = add_log(@, "failed to load the token: builder error")]

\* The token as api_token_handler and the token-input screen format it.
FormatToken(token) ==
    IF StartsWith(token, "Bearer ") THEN token ELSE "Bearer " \o token

\* struct ApiResponse
ApiResponse(success, message, coupons) ==
    [success |-> success, message |-> message, coupons |-> coupons]

\* The routes of the router: GET /, POST /api/token, GET /api/coupons,
\* POST /api/claim and POST /api/reset.
WebRoutes == {"index", "token", "coupons", "claim", "reset"}

\* The tokens submitted to POST /api/token.
SubmittedTokens == {"", "abc", "Bearer xyz"}

\* What the probe of api_token_handler comes to.
WebProbeReplies ==
    {a \in ProbeReplies :
        \/ a.kind # "http" /\ a.msg = "operation timed out"
        \/ a.kind = "http" /\ a.status.code \in {200, 401, 500}
           /\ a.body.raw = "one text item"}

\* A body of the remote service with the text as its one text item.
TextBody(raw, text) ==
    [raw |-> raw, json |-> Some(Envelope(<< ResultOf(<<TextItem(text)>>, <<>>) >>))]

\* What a remote call of the coupon and claim handlers comes to.
WebToolReplies ==
    {a \in ClientReplies :
        \/ a.kind = "send_error" /\ a.msg = "operation timed out"
        \/ a.kind = "http" /\ a.status.code = 200 /\ a.body.raw \in {"no content", "tool error"}
        \/ a.kind = "http" /\ a.status.code = 401 /\ a.body.raw = "<html>Bad Gateway</html>"}
    \cup [kind : {"http"}, status : {[code |-> 200, reason |-> "OK"]},
          body : {TextBody("coupon list",
                           "# My coupons\ntotal 2\n\n## Big Mac\n- **offer**: 9.9\n## Fries"),
                  TextBody("six lines", "bound 2\n\n \nBig Mac\nFries\nCola")}]

\* The files the web front-end starts on: a token in the file of the
\* working directory, in the file of the user directory, in both or in
\* neither, with the user directory writable or not.
WebDisks ==
    {Disk(TRUE, f, g, TRUE, w) :
        f \in {FileMissing, FileOf(Config("Bearer abc", None, None))},
        g \in {FileMissing, FileOf(Config("Bearer old", Some(9000), None))},
        w \in BOOLEAN}

\* The state that no web handler touches.
outside_web == <<relay, process, client_op, round_trip, tui, config_op, log_op>>

\* web::run has loaded the configuration and looked at its token; the
\* router serves.
InitWeb ==
    /\ pc = [r \in Slots |-> "idle"]
    /\ wire = [r \in Slots |-> None]
    /\ local = [r \in Slots |-> None]
    /\ sent = [r \in Slots |-> <<>>]
    /\ reply = [r \in Slots |-> None]
    /\ http = [r \in Slots |-> None]
    /\ state_lock = <<>>
    /\ client_lock = <<>>
    /\ server_state = StartupServerState
    /\ process = None
    /\ client_op = None
    /\ round_trip = None
    /\ disk \in WebDisks
    /\ \E build \in BOOLEAN : web_state = WebStartup(load(disk).config, build)
    /\ web_lock = <<>>
    /\ web_task = [h \in WebHandlers |-> WebIdle]
    /\ web_served = 0
    /\ TuiAtRest
    /\ dropped = {}
    /\ config_op = None
    /\ log_op = None

\* A request arrives and its handler asks for the state lock.
WebReceive(h) ==
    /\ web_state # None
    /\ web_task[h].at = "idle"
    /\ web_served < MaxWebRequests
    /\ \E route \in WebRoutes :
       \E payload \in IF route = "token" THEN {Some(t) : t \in SubmittedTokens} ELSE {None} :
          web_task' = [web_task EXCEPT ![h] =
                          [WebIdle EXCEPT !.at = "wait_state", !.route = route,
                                          !.payload = payload]]
    /\ web_lock' = Append(web_lock, h)
    /\ web_served' = web_served + 1
    /\ UNCHANGED <<outside_web, disk, web_state>>

\* The handler is over: its response, and the state guard dropped.
WebFinish(h, state, response) ==
    /\ web_state' = state
    /\ web_task' = [web_task EXCEPT ![h].at = "done", ![h].response = Some(response)]
    /\ web_lock' = SelectSeq(web_lock, LAMBDA x : x # h)

\* The handler posts a request through the client and waits for the reply.
WebCall(h, state, client, request) ==
    /\ web_state' = state
    /\ web_task' = [web_task EXCEPT ![h].at = "calling",
                                    ![h].call = Some([client |-> client,
                                                      request |-> request])]

\* WebCall dropping the state guard while it waits for the reply.
WebAwait_GuardDropped(h) ==
    web_lock' = SelectSeq(web_lock, LAMBDA x : x # h)

\* The state guard lives to the end of the handler: it is held while the
\* handler waits for the reply.
WebAwait(h) ==
    UNCHANGED web_lock

\* index_handler: the view of the state that the template is rendered from.
index_handler(h) ==
    WebFinish(h, web_state, [has_token |-> web_state.mcp_client.some])

\* api_token_handler up to the probe: McpClient::new on the formatted
\* token fails, or validate_token posts its request.
api_token_handler(h) ==
    LET formatted_token == FormatToken(web_task[h].payload.v) IN
    \E build \in BOOLEAN :
       IF ~build
       THEN /\ WebFinish(h, [web_state EXCEPT
                                !.logs = add_log(@, "failed to create the client: builder error")],
                         ApiResponse(FALSE, "failed to create the client: builder error", None))
            /\ UNCHANGED disk
       ELSE /\ WebCall(h, web_state, McpClientNew(formatted_token), ProbeRequest)
            /\ WebAwait(h)
            /\ UNCHANGED disk

\* api_token_handler dropping the client it has when the new token is invalid.
api_token_handler_validated_DropsClient(h, answer) ==
    LET client == web_task[h].call.v.client
        outcome == validate_token(answer)
    IN  IF outcome.ok /\ outcome.valid
        THEN LET config == [web_state.config EXCEPT !.token = client.token] IN
             /\ disk' = save(config, disk).disk
             /\ WebFinish(h, [web_state EXCEPT
                                !.config = config,
                                !.mcp_client = Some(client),
                                !.logs = add_logs(@, <<"token validated",
                                                       "configuration saved to the current directory">>)],
                          ApiResponse(TRUE, "token validated", None))
        ELSE IF outcome.ok
        THEN /\ WebFinish(h, [web_state EXCEPT
                                !.mcp_client = None,
                                !.logs = add_log(@, "token invalid, enter it again")],
                          ApiResponse(FALSE, "token invalid, enter it again", None))
             /\ UNCHANGED disk
        ELSE /\ WebFinish(h, [web_state EXCEPT
                                !.logs = add_log(@, "validation failed: " \o outcome.msg)],
                          ApiResponse(FALSE, "validation failed: " \o outcome.msg, None))
             /\ UNCHANGED disk

\* api_token_handler from the reply of the probe on.
api_token_handler_validated(h, answer) ==
    LET client == web_task[h].call.v.client
        outcome == validate_token(answer)
    IN  IF outcome.ok /\ outcome.valid
        THEN LET config == [web_state.config EXCEPT !.token = client.token] IN
             /\ disk' = save(config, disk).disk
             /\ WebFinish(h, [web_state EXCEPT
                                !.config = config,
                                !.mcp_client = Some(client),
                                !.logs = add_logs(@, <<"token validated",
                                                       "configuration saved to the current directory">>)],
                          ApiResponse(TRUE, "token validated", None))
        ELSE IF outcome.ok
        THEN /\ WebFinish(h, [web_state EXCEPT
                                !.logs = add_log(@, "token invalid, enter it again")],
                          ApiResponse(FALSE, "token invalid, enter it again", None))
             /\ UNCHANGED disk
        ELSE /\ WebFinish(h, [web_state EXCEPT
                                !.logs = add_log(@, "validation failed: " \o outcome.msg)],
                          ApiResponse(FALSE, "validation failed: " \o outcome.msg, None))
             /\ UNCHANGED disk

\* The message every handler that needs the client answers without one.
NoTokenResponse == ApiResponse(FALSE, "set the token first", None)

\* api_coupons_handler up to the remote call.  The lock of the client is
\* asked for under the state lock only, so it is free.
api_coupons_handler(h) ==
    /\ IF ~web_state.mcp_client.some
       THEN WebFinish(h, web_state, NoTokenResponse)
       ELSE /\ WebCall(h, [web_state EXCEPT !.logs = add_log(@, "loading the claimed coupons...")],
                       web_state.mcp_client.v, ClientRequest("my-coupons"))
            /\ WebAwait(h)
    /\ UNCHANGED disk

\* api_coupons_handler from the reply of get_my_coupons on.
api_coupons_handler_loaded(h, answer) ==
    LET outcome == call_tool(answer) IN
    /\ IF outcome.ok
       THEN LET logged == add_log(web_state.logs, "raw data: " \o outcome.text)
                coupons == parse_coupons_from_markdown(outcome.text)
                coupon_count == Len(coupons)
            IN  IF coupon_count > 0
                THEN WebFinish(h, [web_state EXCEPT
                                     !.logs = add_log(logged, "coupons loaded, found "
                                                  \o ToString(coupon_count) \o " coupons"),
                                     !.coupons = coupons],
                               ApiResponse(TRUE, "found " \o ToString(coupon_count) \o " coupons",
                                           Some(coupons)))
                ELSE WebFinish(h, [web_state EXCEPT
                                     !.logs = add_log(logged, "no coupon data parsed")],
                               ApiResponse(TRUE, "no coupons", Some(<<>>)))
       ELSE WebFinish(h, [web_state EXCEPT
                            !.logs = add_log(@, "failed to load the coupons: " \o outcome.msg)],
                      ApiResponse(FALSE, "failed to load the coupons: " \o outcome.msg, None))
    /\ UNCHANGED disk

\* api_claim_handler up to the remote call.
api_claim_handler(h) ==
    /\ IF ~web_state.mcp_client.some
       THEN WebFinish(h, web_state, NoTokenResponse)
       ELSE /\ WebCall(h, [web_state EXCEPT !.logs = add_log(@, "claiming all coupons...")],
                       web_state.mcp_client.v, ClientRequest("auto-bind-coupons"))
            /\ WebAwait(h)
    /\ UNCHANGED disk

\* result.lines().take(5), the lines that are not blank.
FirstLines(text) ==
    LET lines == Lines(text)
        first == SubSeq(lines, 1, IF Len(lines) < 5 THEN Len(lines) ELSE 5)
    IN  SelectSeq(first, LAMBDA line : Trim(line) # "")

\* api_claim_handler from the reply of auto_bind_coupons on.
api_claim_handler_claimed(h, answer) ==
    LET outcome == call_tool(answer) IN
    /\ IF outcome.ok
       THEN WebFinish(h, [web_state EXCEPT
                            !.logs = add_logs(@, <<"claimed">> \o FirstLines(outcome.text)),
                            !.coupons = <<>>],
                      ApiResponse(TRUE, "claimed", None))
       ELSE WebFinish(h, [web_state EXCEPT
                            !.logs = add_log(@, "failed to claim: " \o outcome.msg)],
                      ApiResponse(FALSE, "failed to claim: " \o outcome.msg, None))
    /\ UNCHANGED disk

\* api_reset_handler
api_reset_handler(h) ==
    LET config == [web_state.config EXCEPT !.token = ""] IN
    /\ disk' = save(config, disk).disk
    /\ WebFinish(h, [web_state EXCEPT
                       !.mcp_client = None,
                       !.config = config,
                       !.coupons = <<>>,
                       !.logs = add_logs(@, <<"token reset", "enter a new MCP token">>)],
                 ApiResponse(TRUE, "token reset", None))

\* state.lock().await returns and the handler runs to its remote call, or
\* to its end when it makes none.
WebLockState(h) ==
    /\ web_task[h].at = "wait_state"
    /\ Holds(web_lock, h)
    /\ CASE web_task[h].route = "index" -> index_handler(h) /\ UNCHANGED disk
         [] web_task[h].route = "token" -> api_token_handler(h)
         [] web_task[h].route = "coupons" -> api_coupons_handler(h)
         [] web_task[h].route = "claim" -> api_claim_handler(h)
         [] web_task[h].route = "reset" -> api_reset_handler(h)
    /\ UNCHANGED <<outside_web, web_served>>

\* The reply of the remote call arrives and the handler runs to its end.
WebRemoteReturn(h) ==
    /\ web_task[h].at = "calling"
    /\ CASE web_task[h].route = "token" ->
              \E answer \in WebProbeReplies : api_token_handler_validated(h, answer)
         [] web_task[h].route = "coupons" ->
              \E answer \in WebToolReplies : api_coupons_handler_loaded(h, answer)
         [] web_task[h].route = "claim" ->
              \E answer \in WebToolReplies : api_claim_handler_claimed(h, answer)
    /\ UNCHANGED <<outside_web, web_served>>

\* The response has been sent: the request is over.
WebDeliver(h) ==
    /\ web_task[h].at = "done"
    /\ web_task' = [web_task EXCEPT ![h] = WebIdle]
    /\ UNCHANGED <<outside_web, disk, web_state, web_lock, web_served>>

WebNext ==
    \E h \in WebHandlers :
        \/ WebReceive(h)
        \/ WebLockState(h)
        \/ WebRemoteReturn(h)
        \/ WebDeliver(h)

WebSpec == InitWeb /\ [][WebNext]_vars

(* ------------- terminal front-end (main.rs, ui/app.rs, ui/screens) ---- *)

\* TokenInputScreen, and TokenInputScreen::new
TokenInputScreen(input, error_message) ==
    [type |-> "TokenInput", input |-> input, error_message |-> error_message]

TokenInputScreenNew == TokenInputScreen("", None)

\* MainScreen, and MainScreen::new
MainScreen(selected_option, show_coupons, coupons) ==
    [type |-> "Main", selected_option |-> selected_option,
     show_coupons |-> show_coupons, coupons |-> coupons]

MainScreenNew == MainScreen(0, FALSE, <<>>)

\* App::new
AppNew ==
    [current_screen |-> TokenInputScreenNew, mcp_client |-> None,
     logs |-> <<"application started...">>, progress |-> 0, is_loading |-> FALSE]

\* App::set_loading
set_loading(a, loading, progress) ==
    [a EXCEPT !.is_loading = loading, !.progress = progress]

\* App::add_log for each message in turn.
AppLog(a, messages) == [a EXCEPT !.logs = add_logs(@, messages)]

\* run_tui_mode from the loaded configuration to the main loop; build is
\* whether McpClient::new gets its reqwest client built.
run_tui_mode(config, build) ==
    IF ~has_valid_token(config) THEN AppNew
    ELSE IF build
    THEN AppLog([AppNew EXCEPT !.mcp_client = Some(McpClientNew(config.token)),
                               !.current_screen = MainScreenNew],
                <<"loaded the saved token">>)
    ELSE AppLog(AppNew, <<"failed to load the token: builder error">>)

\* A key event: its code, the character of a Char, and whether Ctrl is held.
Key(code, c, ctrl) == [code |-> code, c |-> c, ctrl |-> ctrl]

KeyChars == {"a", "q", "Q", "1", "2", "3", "c"}

Keys ==
    {Key("Char", c, FALSE) : c \in KeyChars}
    \cup {Key("Char", "q", TRUE), Key("Char", "a", TRUE)}
    \cup {Key(code, "", FALSE) : code \in {"Backspace", "Enter", "Esc", "Up", "Down", "Tab"}}

\* What the user has typed on the token-input screen before the keys that
\* are followed one by one.
TypedInputs == {"", "abc", "Bearer xyz"}

\* What the remote calls of the terminal front-end come to.
TuiProbeReplies == {a \in WebProbeReplies : a.kind # "http" \/ a.status.code # 500}

TuiToolReplies ==
    {a \in WebToolReplies :
        a.kind # "http" \/ a.body.raw \in {"coupon list", "six lines", "tool error"}}

\* The files the terminal front-end starts on.
TuiDisks ==
    WebDisks \cup {Disk(TRUE, FileMissing, FileMissing, FALSE, FALSE)}

\* What the handling of a key comes to: the application (its screen
\* included), the files, the requests posted through a client, and how the
\* handling ended: "ok" with the next screen, "err" with an error that
\* App::run returns, "exit" with std::process::exit(0).
Handled(a, d, calls, end) == [app |-> a, disk |-> d, calls |-> calls, end |-> end]

\* A request posted with the token of the client.
Posted(client, request) == [client |-> client, request |-> request]

\* The Enter key with an invalid token reported as a failed validation.
TokenInputEnter_OneMessage(a, d, answer, build, build_again) ==
    LET screen == a.current_screen IN
    IF screen.input = ""
    THEN Handled([a EXCEPT !.current_screen.error_message = Some("the token must not be empty")],
                 d, <<>>, "ok")
    ELSE
    LET formatted_token == FormatToken(screen.input)
        loading == set_loading(a, TRUE, 50)
    IN
    IF ~build THEN Handled(loading, d, <<>>, "err")
    ELSE
    LET client == McpClientNew(formatted_token)
        calls == <<Posted(client, ProbeRequest)>>
        validation_result == validate_token(answer)
        probed == set_loading(loading, FALSE, 0)
    IN
    IF validation_result.ok /\ validation_result.valid
    THEN LET loaded == load(d) IN
         IF ~loaded.ok THEN Handled(probed, d, calls, "err")
         ELSE LET saved == save([loaded.config EXCEPT !.token = formatted_token], d) IN
              IF ~saved.ok THEN Handled(probed, d, calls, "err")
              ELSE IF ~build_again THEN Handled(probed, saved.disk, calls, "err")
              ELSE Handled(AppLog([probed EXCEPT !.mcp_client = Some(client),
                                                 !.current_screen = MainScreenNew],
                                  <<"token validated",
                                    "configuration saved to the current directory">>),
                           saved.disk, calls, "ok")
    ELSE IF validation_result.ok
    THEN Handled([probed EXCEPT !.current_screen.error_message =
                                    Some("validation failed: token invalid")],
                 d, calls, "ok")
    ELSE Handled([probed EXCEPT !.current_screen.error_message =
                                    Some("validation failed: " \o validation_result.msg)],
                 d, calls, "ok")

\* TokenInputScreen::handle_key on Enter: answer is what the probe comes
\* to, build and build_again whether the two McpClient::new succeed.
TokenInputEnter(a, d, answer, build, build_again) ==
    LET screen == a.current_screen IN
    IF screen.input = ""
    THEN Handled([a EXCEPT !.current_screen.error_message = Some("the token must not be empty")],
                 d, <<>>, "ok")
    ELSE
    LET formatted_token == FormatToken(screen.input)
        loading == set_loading(a, TRUE, 50)
    IN
    IF ~build THEN Handled(loading, d, <<>>, "err")
    ELSE
    LET client == McpClientNew(formatted_token)
        calls == <<Posted(client, ProbeRequest)>>
        validation_result == validate_token(answer)
        probed == set_loading(loading, FALSE, 0)
    IN
    IF validation_result.ok /\ validation_result.valid
    THEN LET loaded == load(d) IN
         IF ~loaded.ok THEN Handled(probed, d, calls, "err")
         ELSE LET saved == save([loaded.config EXCEPT !.token = formatted_token], d) IN
              IF ~saved.ok THEN Handled(probed, d, calls, "err")
              ELSE IF ~build_again THEN Handled(probed, saved.disk, calls, "err")
              ELSE Handled(AppLog([probed EXCEPT !.mcp_client = Some(client),
                                                 !.current_screen = MainScreenNew],
                                  <<"token validated",
                                    "configuration saved to the current directory">>),
                           saved.disk, calls, "ok")
    ELSE IF validation_result.ok
    THEN Handled([probed EXCEPT !.current_screen.error_message =
                                    Some("token invalid, enter it again")],
                 d, calls, "ok")
    ELSE Handled([probed EXCEPT !.current_screen.error_message =
                                    Some("validation failed: " \o validation_result.msg)],
                 d, calls, "ok")

\* TokenInputScreen::handle_key
TokenInputHandleKey(a, d, key, answer, build, build_again) ==
    LET screen == a.current_screen IN
    CASE key.code = "Char" ->
            Handled([a EXCEPT !.current_screen.input = @ \o key.c], d, <<>>, "ok")
      [] key.code = "Backspace" ->
            Handled([a EXCEPT !.current_screen.input =
                                 IF Len(@) = 0 THEN @ ELSE SubSeq(@, 1, Len(@) - 1)],
                    d, <<>>, "ok")
      [] key.code = "Enter" -> TokenInputEnter(a, d, answer, build, build_again)
      [] key.code = "Esc" -> Handled(a, d, <<>>, "exit")
      [] OTHER -> Handled(a, d, <<>>, "ok")

\* MainScreen::claim_all_coupons
claim_all_coupons(a, d, answer) ==
    IF ~a.mcp_client.some THEN Handled(a, d, <<>>, "ok")
    ELSE LET result == call_tool(answer)
             called == set_loading(AppLog(set_loading(a, TRUE, 0), <<"claiming all coupons...">>),
                                   FALSE, 100)
             calls == <<Posted(a.mcp_client.v, ClientRequest("auto-bind-coupons"))>>
         IN  IF result.ok
             THEN Handled(AppLog(called, <<"claimed">> \o FirstLines(result.text)),
                          d, calls, "ok")
             ELSE Handled(AppLog(called, <<"failed to claim: " \o result.msg>>), d, calls, "ok")

\* The lines that are list items, counted by load_coupons.
IsListItem(line) == StartsWith(line, "- ") \/ StartsWith(line, "* ")

\* MainScreen::load_coupons
load_coupons(a, d, answer) ==
    IF ~a.mcp_client.some THEN Handled(a, d, <<>>, "ok")
    ELSE LET result == call_tool(answer)
             called == set_loading(AppLog(set_loading(a, TRUE, 0),
                                          <<"loading the claimed coupons...">>),
                                   FALSE, 100)
             calls == <<Posted(a.mcp_client.v, ClientRequest("my-coupons"))>>
         IN  IF result.ok
             THEN LET lines == Lines(result.text)
                      coupon_count == Len(SelectSeq(lines, IsListItem))
                  IN  Handled(AppLog([called EXCEPT !.current_screen.coupons =
                                          SelectSeq(lines, LAMBDA line : Trim(line) # "")],
                                     <<"loaded the coupon list (about "
                                       \o ToString(coupon_count) \o " items)">>),
                              d, calls, "ok")
             ELSE Handled(AppLog([called EXCEPT !.current_screen.coupons =
                                     Append(@, "failed to load: " \o result.msg)],
                                 <<"failed to load: " \o result.msg>>),
                          d, calls, "ok")

\* reset_token dropping the client without leaving the main screen.
reset_token_StaysOnMain(a, d) ==
    Handled(AppLog([a EXCEPT !.mcp_client = None],
                   <<"token reset", "enter a new MCP token">>),
            d, <<>>, "ok")

\* MainScreen::reset_token: the file is rewritten only when a configuration
\* loads, and a failed save is passed over.
reset_token(a, d) ==
    LET loaded == load(d)
        after == IF loaded.ok
                 THEN save([loaded.config EXCEPT !.token = ""], d).disk
                 ELSE d
    IN  Handled(AppLog([a EXCEPT !.mcp_client = None,
                                 !.current_screen = TokenInputScreenNew],
                       <<"token reset", "enter a new MCP token">>),
                after, <<>>, "ok")

\* MainScreen::handle_option_selection
handle_option_selection(a, d, answer) ==
    CASE a.current_screen.selected_option = 0 -> claim_all_coupons(a, d, answer)
      [] a.current_screen.selected_option = 1 ->
            load_coupons([a EXCEPT !.current_screen.show_coupons = TRUE], d, answer)
      [] a.current_screen.selected_option = 2 -> reset_token(a, d)
      [] OTHER -> Handled(a, d, <<>>, "ok")

\* MainScreen::handle_key
MainHandleKey(a, d, key, answer) ==
    LET screen == a.current_screen
        select(option) ==
            handle_option_selection([a EXCEPT !.current_screen.selected_option = option],
                                    d, answer)
    IN
    CASE key.code = "Up" ->
            Handled([a EXCEPT !.current_screen.selected_option = IF @ > 0 THEN @ - 1 ELSE @],
                    d, <<>>, "ok")
      [] key.code = "Down" ->
            Handled([a EXCEPT !.current_screen.selected_option = IF @ < 2 THEN @ + 1 ELSE @],
                    d, <<>>, "ok")
      [] key.code = "Enter" -> handle_option_selection(a, d, answer)
      [] key.code = "Char" /\ key.c = "1" -> select(0)
      [] key.code = "Char" /\ key.c = "2" -> select(1)
      [] key.code = "Char" /\ key.c = "3" -> select(2)
      [] key.code = "Char" /\ key.c \in {"c", "C"} ->
            IF ~screen.show_coupons
            THEN load_coupons([a EXCEPT !.current_screen.show_coupons = TRUE], d, answer)
            ELSE Handled([a EXCEPT !.current_screen.show_coupons = FALSE], d, <<>>, "ok")
      [] OTHER -> Handled(a, d, <<>>, "ok")

\* The state that the terminal front-end does not touch.
outside_tui == <<relay, process, client_op, round_trip, web, config_op, log_op>>

\* run_tui_mode has loaded the configuration and built the App; the user
\* may have typed a token already.
InitTui ==
    /\ pc = [r \in Slots |-> "idle"]
    /\ wire = [r \in Slots |-> None]
    /\ local = [r \in Slots |-> None]
    /\ sent = [r \in Slots |-> <<>>]
    /\ reply = [r \in Slots |-> None]
    /\ http = [r \in Slots |-> None]
    /\ state_lock = <<>>
    /\ client_lock = <<>>
    /\ server_state = StartupServerState
    /\ process = None
    /\ client_op = None
    /\ round_trip = None
    /\ WebAtRest
    /\ dropped = {}
    /\ config_op = None
    /\ log_op = None
    /\ disk \in TuiDisks
    /\ \E build \in BOOLEAN, typed \in TypedInputs :
          LET started == run_tui_mode(load(disk).config, build) IN
          app = IF started.current_screen.type = "TokenInput"
                THEN [started EXCEPT !.current_screen.input = typed]
                ELSE started
    /\ tui_calls = <<>>
    /\ tui_exit = None
    /\ tui_keys = 0

\* App::run reads a key event.
KeyRead ==
    /\ app # None
    /\ tui_exit = None
    /\ tui_keys < MaxKeys
    /\ tui_keys' = tui_keys + 1

\* The outcome of handle_key taken by App::run: the next screen, or the
\* end of the loop with the error, or the exit of the process.
Take(handled) ==
    /\ app' = handled.app
    /\ disk' = handled.disk
    /\ tui_calls' = handled.calls
    /\ tui_exit' = CASE handled.end = "ok" -> None
                     [] handled.end = "err" -> ExitFailure
                     [] handled.end = "exit" -> ExitSuccess

\* App::run on the key q or Q: with Ctrl the loop ends, without it the key
\* is passed over; no screen sees it.
QuitOn(key) ==
    /\ KeyRead
    /\ key.code = "Char" /\ key.c \in {"q", "Q"}
    /\ tui_exit' = IF key.ctrl THEN ExitSuccess ELSE None
    /\ tui_calls' = <<>>
    /\ UNCHANGED <<outside_tui, disk, app>>

QuitKey == \E key \in Keys : QuitOn(key)

\* The outcomes to follow for the key: those of the remote call and of
\* McpClient::new, which only Enter comes to, and one of them for a key
\* that comes to none.
OnEnter(key, outcomes) ==
    IF key.code = "Enter" THEN outcomes ELSE {CHOOSE o \in outcomes : TRUE}

\* App::run on any other key while the token-input screen is shown.
TokenInputOn(key) ==
    /\ KeyRead
    /\ app.current_screen.type = "TokenInput"
    /\ ~(key.code = "Char" /\ key.c \in {"q", "Q"})
    /\ \E answer \in OnEnter(key, TuiProbeReplies) :
       \E build \in OnEnter(key, BOOLEAN), build_again \in OnEnter(key, BOOLEAN) :
          Take(TokenInputHandleKey(app, disk, key, answer, build, build_again))
    /\ UNCHANGED outside_tui

TokenInputKey == \E key \in Keys : TokenInputOn(key)

\* App::run on any other key while the main screen is shown.
MainScreenOn(key) ==
    /\ KeyRead
    /\ app.current_screen.type = "Main"
    /\ ~(key.code = "Char" /\ key.c \in {"q", "Q"})
    /\ \E answer \in (IF key.code \in {"Enter", "Char"} THEN TuiToolReplies
                      ELSE {CHOOSE a \in TuiToolReplies : TRUE}) :
          Take(MainHandleKey(app, disk, key, answer))
    /\ UNCHANGED outside_tui

MainScreenKey == \E key \in Keys : MainScreenOn(key)

TuiNext == QuitKey \/ TokenInputKey \/ MainScreenKey

TuiSpec == InitTui /\ [][TuiNext]_vars

(* ------------------- the log list of a front-end --------------------- *)

\* The add_log calls made on a log list in all.
MaxAdds == 3

\* The state that add_log leaves alone.
outside_log == <<relay, disk, process, client_op, round_trip, web, tui, config_op>>

\* The lines of a log list after k calls of add_log.
NumberedLines(k) == [i \in 1..k |-> "line " \o ToString(i)]

\* The messages added.
LogMessages == {"Token reset", "Enter a new token"}

\* A log list of a front-end with the messages added to it so far, and the
\* calls of add_log made on it since.
LogOp(front, logs, added, calls) ==
    Some([front |-> front, logs |-> logs, added |-> added, calls |-> calls])

\* A front-end whose log list has had up to LogLimit lines added.
InitLog ==
    /\ pc = [r \in Slots |-> "idle"]
    /\ wire = [r \in Slots |-> None]
    /\ local = [r \in Slots |-> None]
    /\ sent = [r \in Slots |-> <<>>]
    /\ reply = [r \in Slots |-> None]
    /\ http = [r \in Slots |-> None]
    /\ state_lock = <<>>
    /\ client_lock = <<>>
    /\ server_state = StartupServerState
    /\ dropped = {}
    /\ process = None
    /\ FrontEndsAtRest
    /\ disk = Disk(TRUE, FileMissing, FileMissing, TRUE, TRUE)
    /\ config_op = None
    /\ \E front \in {"web", "tui"}, k \in 0..LogLimit :
          log_op = LogOp(front, NumberedLines(k), NumberedLines(k), 0)

\* One call of add_log on the log list of the front-end.
AddLog(front) ==
    /\ log_op # None
    /\ log_op.v.front = front
    /\ log_op.v.calls < MaxAdds
    /\ \E message \in LogMessages :
          log_op' = LogOp(front, add_log(log_op.v.logs, message),
                          Append(log_op.v.added, message), log_op.v.calls + 1)
    /\ UNCHANGED outside_log

\* WebAppState::add_log.
WebAddLog == AddLog("web")

\* App::add_log.
AppAddLog == AddLog("tui")

LogNext == WebAddLog \/ AppAddLog

LogSpec == InitLog /\ [][LogNext]_vars

(* ------------------- either front-end on the same files --------------- *)

\* The program runs one of its two interactive front-ends.
FrontEndNext == WebNext \/ TuiNext

FrontEndSpec == (InitWeb \/ InitTui) /\ [][FrontEndNext]_vars

(* ------------------------------ claims -------------------------------- *)

Finished(r) == pc[r] = "done"

\* The id member is missing or is a JSON null.
IsNotification(w) == ~w.id.present \/ w.id.v.t = "null"

\* The body of the HTTP response is a JSON-RPC response object.
HasResponseObject(r) == http[r].v.body.kind = "json"
ResponseOf(r) == http[r].v.body.json.members

RecognizedTools == {"available-coupons", "auto-bind-coupons", "my-coupons", "now-time-info"}

\* C1: a request whose id is absent or null, whatever its method and params,
\* is answered with HTTP 200 and an empty body, never with a response object.
C1_NotificationEmpty200 ==
    \A r \in Slots :
        Finished(r) /\ IsNotification(wire[r].v)
        => /\ http[r].v.status = 200
           /\ http[r].v.body.kind = "empty"

\* A tools/call of a tool with a null id has been answered with an empty 200.
C1_Witness ==
    \E r \in Slots :
        /\ Finished(r)
        /\ wire[r].v.id = Present(JNull)
        /\ wire[r].v.method = "tools/call"
        /\ wire[r].v.params = Present(JObj(<< <<"name", JStr("my-coupons")>> >>))
        /\ http[r].v = HttpOk(EmptyBody)

\* C2: a step that takes in a notification leaves both locks, the outbound
\* requests and the handler locals as they were and ends the exchange at
\* once; an exchange holding a notification is never inside a tool handler.
C2_NotificationNotProcessed ==
    [][\A r \in Slots :
          /\ (~wire[r].some /\ wire'[r].some /\ IsNotification(wire'[r].v))
             => /\ pc'[r] = "done"
                /\ state_lock' = state_lock
                /\ client_lock' = client_lock
                /\ sent' = sent
                /\ local' = local
                /\ reply' = reply
          /\ (wire[r].some /\ IsNotification(wire[r].v))
             => /\ pc[r] = "done"
                /\ sent[r] = <<>>
                /\ \A i \in 1..Len(state_lock) : state_lock[i] # r
                /\ \A i \in 1..Len(client_lock) : client_lock[i] # r]_vars

\* A tools/call of a tool without id has ended with no outbound request.
C2_Witness ==
    \E r \in Slots :
        /\ Finished(r)
        /\ wire[r].v.id = Absent
        /\ wire[r].v.method = "tools/call"
        /\ wire[r].v.params = Present(JObj(<< <<"name", JStr("available-coupons")>>,
                                              <<"arguments", EmptyObject>> >>))
        /\ sent[r] = <<>>
        /\ state_lock = <<>> /\ client_lock = <<>>

\* C3: the id of every response object equals the id of its request exactly,
\* whether that was given as a JSON number or as a numeric string.
C3_ResponseIdEqualsRequestId ==
    \A r \in Slots :
        Finished(r) /\ HasResponseObject(r)
        => Get(ResponseOf(r), "id") = wire[r].v.id.v

\* C4: every response object has exactly one of result and error.
C4_ExactlyOneOfResultAndError ==
    \A r \in Slots :
        Finished(r) /\ HasResponseObject(r)
        => (HasKey(ResponseOf(r), "result") # HasKey(ResponseOf(r), "error"))

\* A tool call whose remote call failed and a protocol error have both been
\* answered with a response object.
C4_Witness ==
    \E r \in Slots :
        /\ Finished(r) /\ HasResponseObject(r)
        /\ reply[r].some /\ reply[r].v.kind = "send_error"
        /\ HasKey(ResponseOf(r), "result")
        /\ ~HasKey(ResponseOf(r), "error")

\* The remote call did not end in a tool result that reports success: the
\* transport failed, the status is not 2xx, the body is not a JSON-RPC
\* response, or the response carries an error, no result, or isError = true.
RemoteFailed(a) ==
    \/ a.kind # "http"
    \/ a.status.code < 200 \/ a.status.code > 299
    \/ ~a.body.json.some
    \/ LET m == a.body.json.v.members IN
       \/ ~HasKey(m, "id") \/ ~HasKey(m, "jsonrpc")
       \/ HasKey(m, "error")
       \/ ~HasKey(m, "result")
       \/ /\ HasKey(Get(m, "result").members, "isError")
          /\ Get(Get(m, "result").members, "isError").b

\* The result member of the response object.
ResultOfResponse(r) == Get(ResponseOf(r), "result").members

\* C5: when the remote call of a tool fails in any way, the response is a
\* success envelope whose result has isError = true and exactly one text
\* item carrying the error message, and no top-level error.
C5_RemoteFailureIsToolError ==
    \A r \in Slots :
        Finished(r) /\ reply[r].some /\ RemoteFailed(reply[r].v)
        => /\ HasResponseObject(r)
           /\ ~HasKey(ResponseOf(r), "error")
           /\ HasKey(ResponseOf(r), "result")
           /\ Get(ResultOfResponse(r), "isError") = JBool(TRUE)
           /\ LET content == Get(ResultOfResponse(r), "content").items IN
              /\ Len(content) = 1
              /\ Get(content[1].members, "type") = JStr("text")
              /\ Get(content[1].members, "text") = JStr(call_tool(reply[r].v).msg)
              /\ Len(call_tool(reply[r].v).msg) > 0

\* A tool call whose remote call was answered with status 500 has been
\* answered with a tool-level error.
C5_Witness ==
    \E r \in Slots :
        /\ Finished(r) /\ reply[r].some
        /\ reply[r].v.kind = "http" /\ reply[r].v.status.code = 500
        /\ Get(ResultOfResponse(r), "isError") = JBool(TRUE)

\* C6: when the client operation of a tool succeeds with payload P, the
\* result has isError = false and its content is exactly one item of type
\* text whose text is P.
C6_RemoteSuccessIsOneTextItem ==
    \A r \in Slots :
        Finished(r) /\ reply[r].some /\ call_tool(reply[r].v).ok
        => /\ HasResponseObject(r)
           /\ ~HasKey(ResponseOf(r), "error")
           /\ Get(ResultOfResponse(r), "isError") = JBool(FALSE)
           /\ LET content == Get(ResultOfResponse(r), "content").items IN
              /\ Len(content) = 1
              /\ Get(content[1].members, "type") = JStr("text")
              /\ Get(content[1].members, "text") = JStr(call_tool(reply[r].v).text)

\* Each of the four tools has been called with a remote reply of two text
\* items, answered as one text item.
C6_Witness ==
    \E r \in Slots :
        /\ Finished(r) /\ reply[r].some
        /\ local[r].v.tool = "now-time-info"
        /\ reply[r].v.kind = "http" /\ reply[r].v.status.code = 200
        /\ reply[r].v.body.raw = "two text items and an image"
        /\ Get(ResultOfResponse(r), "content").items
               = <<JObj(<< <<"type", JStr("text")>>,
                           <<"text", JStr("line 1\nline 2")>> >>)>>

\* The request was accepted and carries an id (it is not a notification).
HasId(w) == DeserializeRequest(w).ok /\ ~IsNotification(w)

\* The error member of the response object.
ErrorOfResponse(r) == Get(ResponseOf(r), "error").members

\* The response is a protocol-level error with the given code.
IsProtocolError(r, code) ==
    /\ HasResponseObject(r)
    /\ HasKey(ResponseOf(r), "error")
    /\ ~HasKey(ResponseOf(r), "result")
    /\ Get(ErrorOfResponse(r), "code") = JInt(code)

\* C7: a tools/call with an id whose params parse but name none of the four
\* tools is answered with the protocol error -32601, and nothing is sent to
\* the remote service.
C7_UnknownToolIsMethodNotFound ==
    \A r \in Slots :
        /\ wire[r].some
        /\ HasId(wire[r].v)
        /\ wire[r].v.method = "tools/call"
        /\ ParseToolCallParams(OptionValue(wire[r].v.params)).ok
        /\ ParseToolCallParams(OptionValue(wire[r].v.params)).fields.name
               \notin RecognizedTools
        => /\ Finished(r)
           /\ IsProtocolError(r, -32601)
           /\ sent[r] = <<>>

\* A tools/call naming "nonexistent-tool" has been answered.
C7_Witness ==
    \E r \in Slots :
        /\ Finished(r)
        /\ wire[r].v.method = "tools/call"
        /\ wire[r].v.id = Present(JNum(<<"7">>))
        /\ wire[r].v.params = Present(JObj(<< <<"name", JStr("nonexistent-tool")>> >>))
        /\ IsProtocolError(r, -32601)

\* The params member is missing or null, or is a value that holds no string
\* name: a scalar, an object without a string "name", an array without a
\* string.
NoStringName(p) ==
    \/ ~p.present
    \/ p.v.t \in {"null", "bool", "number", "string"}
    \/ /\ p.v.t = "object"
       /\ \/ ~HasKey(p.v.members, "name")
          \/ Get(p.v.members, "name").t # "string"
    \/ /\ p.v.t = "array"
       /\ \A i \in 1..Len(p.v.items) : p.v.items[i].t # "string"

\* C8: tools/call and system.describeMethod with an id and with params that
\* are absent or hold no string name are answered with the protocol error
\* -32602, and nothing is sent to the remote service.
C8_MalformedParamsIsInvalidParams ==
    \A r \in Slots :
        /\ wire[r].some
        /\ HasId(wire[r].v)
        /\ wire[r].v.method \in {"tools/call", "system.describeMethod"}
        /\ NoStringName(wire[r].v.params)
        => /\ Finished(r)
           /\ IsProtocolError(r, -32602)
           /\ sent[r] = <<>>

\* A tools/call without params has been answered.
C8_Witness ==
    \E r \in Slots :
        /\ Finished(r)
        /\ wire[r].v.method = "tools/call"
        /\ wire[r].v.id = Present(JChars(<<"7">>))
        /\ wire[r].v.params = Absent
        /\ IsProtocolError(r, -32602)

\* The string part occurs in the string whole.
Contains(whole, part) ==
    \E i \in 1..(Len(whole) - Len(part) + 1) :
        SubSeq(whole, i, i + Len(part) - 1) = part

\* C9: a request with an id whose method is none of the five protocol
\* methods is answered with the protocol error -32601 whose message holds
\* the method name, and nothing is sent to the remote service.
C9_UnknownMethodIsMethodNotFound ==
    \A r \in Slots :
        /\ wire[r].some
        /\ HasId(wire[r].v)
        /\ wire[r].v.method \notin {"initialize", "tools/list", "tools/call",
                                    "system.listMethods", "system.describeMethod"}
        => /\ Finished(r)
           /\ IsProtocolError(r, -32601)
           /\ Contains(Get(ErrorOfResponse(r), "message").s, wire[r].v.method)
           /\ sent[r] = <<>>

\* A request of the method foo.bar has been answered.
C9_Witness ==
    \E r \in Slots :
        /\ Finished(r)
        /\ wire[r].v.method = "foo.bar"
        /\ wire[r].v.id = Present(JNum(<<"7">>))
        /\ IsProtocolError(r, -32601)

\* The request is a tools/call with an id whose params parse and name one
\* of the four tools.
IsToolCall(w) ==
    /\ HasId(w)
    /\ w.method = "tools/call"
    /\ ParseToolCallParams(OptionValue(w.params)).ok
    /\ ParseToolCallParams(OptionValue(w.params)).fields.name \in RecognizedTools

\* The outbound request is a tools/call of the tool with no arguments.
IsRemoteCallOf(out, tool) ==
    /\ Get(out.members, "method") = JStr("tools/call")
    /\ Get(Get(out.members, "params").members, "name") = JStr(tool)
    /\ \/ ~HasKey(Get(out.members, "params").members, "arguments")
       \/ Get(Get(out.members, "params").members, "arguments") = EmptyObject

\* C10: an answered tools/call with an id and the name of a tool has caused
\* exactly one outbound tools/call, of that tool and without arguments; any
\* other answered request has caused none; and no exchange ever has more
\* than one outbound request, each naming one of the four tools.
C10_OneRemoteCallPerToolCall ==
    \A r \in Slots :
        /\ Len(sent[r]) <= 1
        /\ \A i \in 1..Len(sent[r]) :
               \E tool \in RecognizedTools : IsRemoteCallOf(sent[r][i], tool)
        /\ Finished(r)
           => IF IsToolCall(wire[r].v)
              THEN /\ Len(sent[r]) = 1
                   /\ IsRemoteCallOf(sent[r][1],
                         ParseToolCallParams(OptionValue(wire[r].v.params)).fields.name)
              ELSE sent[r] = <<>>

\* A tools/call of my-coupons that came with arguments has been answered
\* after a failed remote call, with one outbound request without arguments.
C10_Witness ==
    \E r \in Slots :
        /\ Finished(r)
        /\ wire[r].v.params = Present(JObj(<< <<"arguments", JObj(<< <<"x", JInt(1)>> >>)>>,
                                              <<"name", JStr("my-coupons")>> >>))
        /\ reply[r].some /\ reply[r].v.kind = "send_error"
        /\ Len(sent[r]) = 1
        /\ Get(Get(sent[r][1].members, "params").members, "name") = JStr("my-coupons")
        /\ ~HasKey(Get(sent[r][1].members, "params").members, "arguments")

\* The exchange has posted its request to the remote service and the call
\* has not returned yet.
RemoteCallInProgress(r) == Len(sent[r]) > 0 /\ ~reply[r].some

\* C11: with any number of tool calls in flight, at most one remote call is
\* in progress; the exchange whose call is in progress holds the client lock
\* (and the server-state lock) from before the request is posted until the
\* call has returned, and every other tool call has posted nothing yet or
\* has its call behind it.
C11_RemoteCallsSerialized ==
    /\ \A r, q \in DOMAIN pc :
           RemoteCallInProgress(r) /\ RemoteCallInProgress(q) => r = q
    /\ \A r \in DOMAIN pc :
           /\ RemoteCallInProgress(r) <=> pc[r] = "calling"
           /\ RemoteCallInProgress(r)
              => /\ Len(client_lock) > 0 /\ Head(client_lock) = r
                 /\ Len(state_lock) > 0 /\ Head(state_lock) = r
           /\ pc[r] \in {"wait_state", "wait_client"} => sent[r] = <<>>

\* A remote call is in progress while another tool call waits for the lock.
C11_Witness ==
    \E r, q \in DOMAIN pc :
        /\ r # q
        /\ RemoteCallInProgress(r)
        /\ pc[q] = "wait_state"
        /\ state_lock = <<r, q>>
        /\ client_lock = <<r>>

\* The members are those of a well-formed JSON-RPC response: the version,
\* a numeric id, and either a result or an error with a numeric code and a
\* message.
WellFormedResponse(members) ==
    /\ HasKey(members, "jsonrpc") /\ Get(members, "jsonrpc") = JStr("2.0")
    /\ HasKey(members, "id") /\ Get(members, "id").t = "number"
    /\ HasKey(members, "result") # HasKey(members, "error")
    /\ HasKey(members, "error")
       => /\ Get(members, "error").t = "object"
          /\ HasKey(Get(members, "error").members, "code")
          /\ Get(Get(members, "error").members, "code").t = "number"
          /\ HasKey(Get(members, "error").members, "message")
          /\ Get(Get(members, "error").members, "message").t = "string"

\* The exchange holds an accepted request with an id.
HoldsRequestWithId(r) == wire[r].some /\ HasId(wire[r].v)

\* The exchange has its response: status 200 and a well-formed body.
Answered200(r) ==
    /\ pc[r] = "done"
    /\ http[r].some
    /\ http[r].v.status = 200
    /\ http[r].v.body.kind = "json"
    /\ WellFormedResponse(http[r].v.body.json.members)

\* C12: every accepted request with an id is eventually answered with the
\* status 200 and a well-formed JSON-RPC body, also when it waits for the
\* locks behind other tool calls and when its remote call fails; until then
\* the request stays with its handler, and an exchange gets its response
\* once: a response, once produced, stays as it is until it is delivered.
C12_EveryRequestAnsweredOnce ==
    /\ \A r \in ConcurrentSlots : HoldsRequestWithId(r) ~> Answered200(r)
    /\ [][\A r \in ConcurrentSlots :
            /\ HoldsRequestWithId(r) /\ pc[r] # "done"
               => wire'[r] = wire[r] /\ pc'[r] # "idle" /\ ~http[r].some
            /\ ~http[r].some /\ http'[r].some => pc'[r] = "done"
            /\ http[r].some
               => \/ http'[r] = http[r] /\ pc'[r] = "done"
                  \/ ~http'[r].some /\ ~wire'[r].some /\ pc'[r] = "idle"]_vars

\* A tool call that entered while another tool call was in flight has been
\* answered, after a remote call that failed with the status 500.
C12_Witness ==
    \E r \in DOMAIN pc :
        /\ r > 1
        /\ Answered200(r)
        /\ HoldsRequestWithId(r)
        /\ reply[r].some /\ reply[r].v.kind = "http" /\ reply[r].v.status.code = 500
        /\ Get(ResultOfResponse(r), "isError") = JBool(TRUE)

\* The id member is present and not null.
HasNonNullId(w) == w.id.present /\ w.id.v.t # "null"

\* The characters are those of an unsigned decimal integer.
IsUnsignedDecimal(cs) == Len(cs) > 0 /\ AllDigits(cs)

\* The id is a non-negative integer given as a JSON number (no sign,
\* fraction or exponent) or as a numeric string (decimal digits, which a
\* "+" may precede).
IsNonNegativeIntegerId(v) ==
    \/ v.t = "number" /\ IsUnsignedDecimal(v.lit)
    \/ /\ v.t = "string"
       /\ IsUnsignedDecimal(IF Len(v.chars) > 0 /\ v.chars[1] = "+"
                            THEN Tail(v.chars) ELSE v.chars)

\* The digits of the value of such an id, without leading zeros.
IdValueDigits(v) ==
    StripZeros(IF v.t = "number" THEN v.lit
               ELSE IF v.chars[1] = "+" THEN Tail(v.chars) ELSE v.chars)

\* The request was rejected before dispatch: the extractor answered, no
\* handler ran and nothing was sent to the remote service.
RejectedBeforeDispatch(r) ==
    /\ pc[r] = "done"
    /\ http[r].v.status = 422
    /\ http[r].v.body.kind = "text"
    /\ sent[r] = <<>>
    /\ ~local[r].some
    /\ ~reply[r].some

C14_OnlyVersion2IsDispatched ==
    \A r \in DOMAIN pc :
        wire[r].some /\ wire[r].v.jsonrpc # "2.0"
        => /\ pc[r] = "done"
           /\ sent[r] = <<>>
           /\ \/ RejectedBeforeDispatch(r)
              \/ IsProtocolError(r, -32600)
              \/ IsNotification(wire[r].v) /\ http[r].v.body.kind = "empty"

\* The request is a system.describeMethod with an id whose params parse.
IsDescribeMethod(w) ==
    /\ HasId(w)
    /\ w.method = "system.describeMethod"
    /\ ParseDescribeMethodParams(OptionValue(w.params)).ok

\* The name the params of a system.describeMethod give.
DescribedName(w) == ParseDescribeMethodParams(OptionValue(w.params)).fields.name

\* The request with its params naming the given method.
Describing(w, name) ==
    [DeserializeRequest(w).request EXCEPT
        !.params = Some(JObj(<< <<"name", JStr(name)>> >>))]

\* The result member the relay answers the request with, if any.
AnsweredResult(request) == Dispatch(request).response.result

\* C15: for each tool T, the descriptor system.describeMethod has returned
\* for the name T or for the name "tools/call:T" is the descriptor it
\* returns for the other form of the name: the two forms give the same
\* name, description, parameters, returns and tags.
C15_AliasGivesSameDescriptor ==
    \A r \in DOMAIN pc :
        Finished(r) /\ IsDescribeMethod(wire[r].v)
        => \A t \in RecognizedTools :
              DescribedName(wire[r].v) \in {t, "tools/call:" \o t}
              => /\ HasResponseObject(r)
                 /\ HasKey(ResponseOf(r), "result")
                 /\ AnsweredResult(Describing(wire[r].v, t))
                        = Some(Get(ResponseOf(r), "result"))
                 /\ AnsweredResult(Describing(wire[r].v, "tools/call:" \o t))
                        = Some(Get(ResponseOf(r), "result"))
                 /\ Get(ResultOfResponse(r), "name") = JStr(t)

\* The description asked for under the name "tools/call:my-coupons" has
\* been answered with the descriptor named "my-coupons".
C15_Witness ==
    \E r \in DOMAIN pc :
        /\ Finished(r)
        /\ IsDescribeMethod(wire[r].v)
        /\ DescribedName(wire[r].v) = "tools/call:my-coupons"
        /\ HasKey(ResponseOf(r), "result")
        /\ Get(ResultOfResponse(r), "name") = JStr("my-coupons")
        /\ Get(ResultOfResponse(r), "tags") = JArr(<<JStr("coupons"), JStr("my")>>)

\* The names system.describeMethod recognizes: the five protocol methods
\* and the four tools, bare or under the prefix "tools/call:".
DescribableNames ==
    {"initialize", "tools/list", "tools/call", "system.listMethods",
     "system.describeMethod"}
    \cup RecognizedTools
    \cup {"tools/call:" \o t : t \in RecognizedTools}

\* The value is a descriptor: an object of name, description, parameters,
\* returns and tags.
IsDescriptor(v) ==
    /\ v.t = "object"
    /\ Len(v.members) = 5
    /\ \A key \in {"name", "description", "parameters", "returns", "tags"} :
           HasKey(v.members, key)
    /\ Get(v.members, "name").t = "string"
    /\ Get(v.members, "description").t = "string"
    /\ Get(v.members, "tags").t = "array"

\* C16: system.describeMethod with an id and params that hold a string name
\* is answered with a success result holding the descriptor of that method
\* or tool exactly when the name is one of the five protocol methods or one
\* of the four tools, bare or under the prefix "tools/call:"; for every
\* other name it is answered with the protocol error -32601.
C16_DescribeMethodRecognizesNineNames ==
    \A r \in DOMAIN pc :
        Finished(r) /\ IsDescribeMethod(wire[r].v)
        => /\ HasResponseObject(r)
           /\ sent[r] = <<>>
           /\ IF DescribedName(wire[r].v) \in DescribableNames
              THEN /\ HasKey(ResponseOf(r), "result")
                   /\ ~HasKey(ResponseOf(r), "error")
                   /\ IsDescriptor(Get(ResponseOf(r), "result"))
                   /\ \E n \in DescribableNames :
                         /\ Get(ResultOfResponse(r), "name") = JStr(n)
                         /\ DescribedName(wire[r].v) \in {n, "tools/call:" \o n}
              ELSE IsProtocolError(r, -32601)

\* A protocol method named under the tool prefix has been answered with the
\* protocol error -32601.
C16_Witness ==
    \E r \in DOMAIN pc :
        /\ Finished(r)
        /\ IsDescribeMethod(wire[r].v)
        /\ DescribedName(wire[r].v) = "tools/call:initialize"
        /\ IsProtocolError(r, -32601)

\* The last client operation was validate_token, or call_tool.
Validated == client_op.some /\ client_op.v.op = "validate_token"
Called == client_op.some /\ client_op.v.op = "call_tool"

\* C17: validate_token returns Ok(false) exactly when the probe is answered
\* with the status 401, Ok(true) for every other status, and an Err that
\* carries the message of the transport error, never Ok(false), when the
\* request could not be completed.
C17_ValidateTokenFalseOnlyOn401 ==
    Validated
    => LET a == client_op.v.reply
           o == client_op.v.outcome
       IN  /\ (o.ok /\ ~o.valid) <=> (a.kind = "http" /\ a.status.code = 401)
           /\ (a.kind = "http" /\ a.status.code # 401) => (o.ok /\ o.valid)
           /\ a.kind # "http"
              => /\ ~o.ok
                 /\ Len(a.msg) > 0
                 /\ Contains(o.msg, a.msg)

\* validate_token has returned Ok(true) for a probe answered with the
\* status 403.
C17_Witness ==
    /\ Validated
    /\ client_op.v.reply.kind = "http"
    /\ client_op.v.reply.status.code = 403
    /\ client_op.v.outcome = ValidOk(TRUE)

\* The status is not a 2xx status.
IsNon2xx(status) == status.code < 200 \/ status.code > 299

\* C18: whenever the remote service answers with a non-2xx status, whatever
\* the body, call_tool fails with an error made of the status and the raw
\* body and of nothing that comes from reading the body as a JSON-RPC
\* response.
C18_Non2xxFailsWithStatusAndBody ==
    Called /\ client_op.v.reply.kind = "http" /\ IsNon2xx(client_op.v.reply.status)
    => LET a == client_op.v.reply
           o == client_op.v.outcome
       IN  /\ ~o.ok
           /\ o.msg = "MCP Server error: " \o ToString(a.status.code) \o " "
                       \o a.status.reason \o " - " \o a.body.raw

\* call_tool has failed on the status 404 with a body that holds a
\* successful tool result.
C18_Witness ==
    /\ Called
    /\ client_op.v.reply.kind = "http"
    /\ client_op.v.reply.status.code = 404
    /\ client_op.v.reply.body.raw = "one text item"
    /\ ~client_op.v.outcome.ok
    /\ client_op.v.outcome.msg = "MCP Server error: 404 Not Found - one text item"

\* The member of the object, when it is there and not null.
NonNull(members, key) == HasKey(members, key) /\ Get(members, key).t # "null"

\* The texts, joined by newlines, of the content items (JSON objects) that
\* carry a text and, when typed is set, are of the type "text".
RECURSIVE JoinedTexts(_, _)
JoinedTexts(items, typed) ==
    IF Len(items) = 0 THEN ""
    ELSE LET m == items[1].members
             rest == JoinedTexts(Tail(items), typed)
             restHasText ==
                 \E i \in 2..Len(items) :
                     /\ NonNull(items[i].members, "text")
                     /\ typed => Get(items[i].members, "type") = JStr("text")
         IN  IF NonNull(m, "text") /\ (typed => Get(m, "type") = JStr("text"))
             THEN Get(m, "text").s \o (IF restHasText THEN "\n" ELSE "") \o rest
             ELSE rest

\* The remote service answered with a 2xx status and a body that parses as
\* a response.
AnsweredAndParsed(a) ==
    a.kind = "http" /\ ~IsNon2xx(a.status) /\ ParseRemoteBody(a.body).ok

\* C19: on a 2xx answer that parses, call_tool gives exactly one outcome, in
\* this order: with an error present it fails with the code and message of
\* the error, also when a result is present; else with no result it fails
\* with the missing-result error; else with isError set it fails with the
\* newline-joined texts of all content items that carry a text; else it
\* succeeds.
C19_OutcomeInFixedOrder ==
    Called /\ AnsweredAndParsed(client_op.v.reply)
    => LET m == client_op.v.reply.body.json.v.members
           o == client_op.v.outcome
       IN  IF NonNull(m, "error")
           THEN /\ ~o.ok
                /\ o.msg = "MCP error "
                           \o ToString(Get(Get(m, "error").members, "code").int)
                           \o ": " \o Get(Get(m, "error").members, "message").s
           ELSE IF ~NonNull(m, "result")
           THEN ~o.ok /\ o.msg = "MCP response missing result"
           ELSE IF /\ HasKey(Get(m, "result").members, "isError")
                   /\ Get(Get(m, "result").members, "isError") = JBool(TRUE)
           THEN /\ ~o.ok
                /\ o.msg = "MCP tool error: "
                           \o JoinedTexts(Get(Get(m, "result").members, "content").items, FALSE)
           ELSE o.ok

\* call_tool has failed with the protocol error of a response that carries
\* a result as well.
C19_Witness ==
    /\ Called
    /\ client_op.v.reply.kind = "http"
    /\ client_op.v.reply.status.code = 200
    /\ client_op.v.reply.body.raw = "protocol error and result"
    /\ client_op.v.outcome.ok = FALSE
    /\ client_op.v.outcome.msg = "MCP error -32000: server busy"

\* C20: when call_tool succeeds, it returns the texts, in their order and
\* joined by newlines, of exactly the content items of the type "text";
\* items of another type add nothing, and with no item of the type "text"
\* the return value is the empty string.
C20_SuccessJoinsTextItems ==
    Called /\ client_op.v.outcome.ok
    => LET a == client_op.v.reply
           items == Get(Get(a.body.json.v.members, "result").members, "content").items
       IN  /\ a.kind = "http"
           /\ client_op.v.outcome.text = JoinedTexts(items, TRUE)
           /\ (\A i \in 1..Len(items) : Get(items[i].members, "type") # JStr("text"))
              => client_op.v.outcome.text = ""

\* call_tool has returned the two texts around a captioned image and an
\* item of the type "text" that has no text.
C20_Witness ==
    /\ Called
    /\ client_op.v.reply.kind = "http"
    /\ client_op.v.reply.body.raw = "text, captioned image, text without text, text"
    /\ client_op.v.outcome.ok
    /\ client_op.v.outcome.text = "first\nlast"

\* The failure o of call_tool on the reply a is a transport error: the
\* request or the reading of the body failed, and the error is passed on.
IsTransportFailure(a, o) == a.kind # "http" /\ o.msg = a.msg

\* ... a non-success HTTP status, with the status and the body.
IsStatusFailure(a, o) ==
    /\ a.kind = "http" /\ IsNon2xx(a.status)
    /\ StartsWith(o.msg, "MCP Server error: " \o ToString(a.status.code))
    /\ Contains(o.msg, a.body.raw)

\* ... a protocol-level JSON-RPC error, with the code and the message.
IsProtocolFailure(a, o) ==
    /\ AnsweredAndParsed(a)
    /\ NonNull(a.body.json.v.members, "error")
    /\ LET e == Get(a.body.json.v.members, "error").members
       IN  o.msg = "MCP error " \o ToString(Get(e, "code").int) \o ": "
                   \o Get(e, "message").s

\* ... a tool-level error, with the aggregated text.
IsToolFailure(a, o) ==
    /\ AnsweredAndParsed(a)
    /\ NonNull(a.body.json.v.members, "result")
    /\ StartsWith(o.msg, "MCP tool error: ")

\* ... a response-shape error: an envelope that parses and has no result.
IsShapeFailure(a, o) ==
    /\ AnsweredAndParsed(a)
    /\ ~NonNull(a.body.json.v.members, "result")
    /\ o.msg = "MCP response missing result"

\* ... a body-parse error: a 2xx body that is not a response envelope, with
\* the message of the parser and the raw body.
IsParseFailure(a, o) ==
    /\ a.kind = "http" /\ ~IsNon2xx(a.status) /\ ~ParseRemoteBody(a.body).ok
    /\ StartsWith(o.msg, "Failed to parse MCP response: ")
    /\ Contains(o.msg, a.body.raw)

\* One of the five kinds of the declared error taxonomy.
IsOfTheFiveKinds(a, o) ==
    \/ IsTransportFailure(a, o)
    \/ IsStatusFailure(a, o)
    \/ IsProtocolFailure(a, o)
    \/ IsToolFailure(a, o)
    \/ IsShapeFailure(a, o)

\* C21 as stated: every failure of call_tool is a transport error, a
\* non-success status, a protocol error, a tool error or a missing result.
C21_FailureIsOneOfFiveKinds ==
    Called /\ ~client_op.v.outcome.ok
    => IsOfTheFiveKinds(client_op.v.reply, client_op.v.outcome)

\* C21: every failure of call_tool is of one of six kinds: the five of the
\* taxonomy, or a body-parse error for a 2xx body that does not parse as a
\* response envelope; the kinds exclude one another.
C21_FailureIsOneOfSixKinds ==
    Called /\ ~client_op.v.outcome.ok
    => LET a == client_op.v.reply
           o == client_op.v.outcome
           kinds == << IsTransportFailure(a, o), IsStatusFailure(a, o),
                       IsProtocolFailure(a, o), IsToolFailure(a, o),
                       IsShapeFailure(a, o), IsParseFailure(a, o) >>
       IN  Cardinality({i \in 1..6 : kinds[i]}) = 1

\* call_tool has failed on a 200 answer whose body is not JSON, with the
\* body-parse error.
C21_Witness ==
    /\ Called
    /\ client_op.v.reply.kind = "http"
    /\ client_op.v.reply.status.code = 200
    /\ ~client_op.v.reply.body.json.some
    /\ ~client_op.v.outcome.ok
    /\ IsParseFailure(client_op.v.reply, client_op.v.outcome)

\* The three methods answered with a static payload.
StaticMethods == {"initialize", "tools/list", "system.listMethods"}

\* The payload of the static method, as JSON.
StaticPayload(method) ==
    CASE method = "initialize" -> InitializeResult
      [] method = "tools/list" -> ToolsListResult
      [] method = "system.listMethods" -> ListMethodsResult

\* The step takes in, at the exchange r, a request of the static method
\* with an id.
TakesInStatic(r, method) ==
    /\ ~wire[r].some /\ wire'[r].some
    /\ wire'[r].v.method = method
    /\ DeserializeRequest(wire'[r].v).ok
    /\ DeserializeRequest(wire'[r].v).request.id.some

\* C29: a request with an id of initialize, tools/list or
\* system.listMethods is answered in the step that takes it in, with the
\* success response that carries the static payload of the method whatever
\* the params, with no lock asked for or released and no request posted to
\* the remote service; and the relay can take such a request in and answer
\* it, at the first free exchange once the finished responses are written
\* out, while a remote call is in progress that holds both locks.
C29_StaticMethodsAnswerWithoutLock ==
    /\ [][\A r \in DOMAIN pc : \A method \in StaticMethods :
            TakesInStatic(r, method)
            => /\ pc'[r] = "done"
               /\ http'[r].some
               /\ http'[r].v.status = 200
               /\ http'[r].v.body.kind = "json"
               /\ LET m == http'[r].v.body.json.members
                  IN  /\ HasKey(m, "result")
                      /\ Get(m, "result") = StaticPayload(method)
                      /\ ~HasKey(m, "error")
                      /\ Get(m, "id") = JNum(DeserializeRequest(wire'[r].v).request.id.v)
               /\ state_lock' = state_lock
               /\ client_lock' = client_lock
               /\ sent' = sent]_vars
    /\ [](\A r, q \in DOMAIN pc :
            /\ pc[q] = "calling"
            /\ Holds(state_lock, q) /\ Holds(client_lock, q)
            /\ Free(r)
            => \A method \in StaticMethods :
                   ENABLED (ConcurrentAnswer(r) /\ wire'[r].v.method = method))

\* tools/list, sent with params it has no use for, has been answered with
\* the list of the tools while the remote call of a tool call is in
\* progress and holds both locks.
C29_Witness ==
    \E r, q \in DOMAIN pc :
        /\ pc[q] = "calling"
        /\ Holds(state_lock, q) /\ Holds(client_lock, q)
        /\ pc[r] = "done"
        /\ wire[r].v.method = "tools/list"
        /\ wire[r].v.params = Present(JArr(<<JStr("my-coupons")>>))
        /\ http[r].some /\ http[r].v.status = 200
        /\ Get(ResponseOf(r), "result") = ToolsListResult

\* The strings of a JSON array of strings, as a set.
StringsOf(array) == {array.items[i].s : i \in 1..Len(array.items)}

\* The names of the tools that tools/list returns.
ListedToolNames ==
    LET tools == Get(ToolsListResult.members, "tools").items
    IN  {Get(tools[i].members, "name").s : i \in 1..Len(tools)}

\* The exchange r holds a request with an id of the method.
IsRequestOf(r, method) ==
    /\ Finished(r)
    /\ wire[r].v.method = method
    /\ DeserializeRequest(wire[r].v).ok
    /\ DeserializeRequest(wire[r].v).request.id.some

\* The request is a tools/call with an id whose params parse.
IsCallWithName(w) ==
    /\ HasId(w)
    /\ w.method = "tools/call"
    /\ ParseToolCallParams(OptionValue(w.params)).ok

\* The name the params of a tools/call give.
CalledName(w) == ParseToolCallParams(OptionValue(w.params)).fields.name

\* C30: system.listMethods returns exactly the five protocol method names
\* followed by the four tool names under the prefix "tools/call:";
\* system.describeMethod never answers -32601 for a name of that list; and
\* tools/list returns its payload, whose tool names are exactly the names
\* for which tools/call makes a remote call.
C30_ListsAgreeWithDispatch ==
    \A r \in DOMAIN pc :
        /\ IsRequestOf(r, "system.listMethods")
           => /\ HasResponseObject(r)
              /\ Get(ResponseOf(r), "result")
                 = JArr(<< JStr("initialize"), JStr("tools/list"), JStr("tools/call"),
                           JStr("system.listMethods"), JStr("system.describeMethod"),
                           JStr("tools/call:available-coupons"),
                           JStr("tools/call:auto-bind-coupons"),
                           JStr("tools/call:my-coupons"),
                           JStr("tools/call:now-time-info") >>)
              /\ Get(ResponseOf(r), "result") = ListMethodsResult
        /\ Finished(r) /\ IsDescribeMethod(wire[r].v)
           /\ DescribedName(wire[r].v) \in StringsOf(ListMethodsResult)
           => /\ HasResponseObject(r)
              /\ HasKey(ResponseOf(r), "result")
              /\ ~HasKey(ResponseOf(r), "error")
        /\ IsRequestOf(r, "tools/list")
           => /\ HasResponseObject(r)
              /\ Get(ResponseOf(r), "result") = ToolsListResult
        /\ Finished(r) /\ IsCallWithName(wire[r].v)
           => IF CalledName(wire[r].v) \in ListedToolNames
              THEN Len(sent[r]) = 1 /\ reply[r].some
              ELSE IsProtocolError(r, -32601) /\ sent[r] = <<>>

\* The last name of the list of system.listMethods has been described.
C30_Witness ==
    \E r \in DOMAIN pc :
        /\ Finished(r)
        /\ IsDescribeMethod(wire[r].v)
        /\ DescribedName(wire[r].v) = "tools/call:now-time-info"
        /\ DescribedName(wire[r].v) \in StringsOf(ListMethodsResult)
        /\ HasKey(ResponseOf(r), "result")

\* The data of a content item; a value without the field holds none.
DataOf(c) == IF "data" \in DOMAIN c THEN c.data ELSE None

\* The two tool results are equal field for field.
SameToolResult(a, b) ==
    /\ a.is_error = b.is_error
    /\ Len(a.content) = Len(b.content)
    /\ \A i \in 1..Len(a.content) :
           /\ a.content[i].content_type = b.content[i].content_type
           /\ a.content[i].text = b.content[i].text
           /\ DataOf(a.content[i]) = DataOf(b.content[i])

\* C27: a tool result of the relay, serialized to JSON and deserialized
\* again, is a value equal to the original field for field.
C27_RoundTripIsIdentity ==
    round_trip.some
    => /\ round_trip.v.back.ok
       /\ SameToolResult(round_trip.v.value, round_trip.v.back.v)

\* C22: whatever requests the relay handles and whatever its remote calls
\* come to, the token and the URL of the shared client and the
\* configuration of the server are what they were at startup, and the
\* configuration files are as they were: the only effect outside an
\* exchange is the request posted to the remote service.
C22_RelayKeepsStartupState ==
    /\ server_state.mcp_client.token = StartupConfig.token
    /\ server_state.mcp_client.url = MCP_SERVER_URL
    /\ server_state.config = StartupConfig
    /\ disk = StartupDisk
    /\ \A r \in DOMAIN pc : Len(sent[r]) <= 1

\* A tool call has been answered after the remote service rejected the
\* token with the status 401.
C22_Witness ==
    \E r \in DOMAIN pc :
        /\ Finished(r)
        /\ Len(sent[r]) = 1
        /\ reply[r].some /\ reply[r].v.kind = "http" /\ reply[r].v.status.code = 401
        /\ server_state = StartupServerState

\* The process ran in the mcpserver mode.
RanMcpServerMode == process.some /\ process.v.mode = "mcpserver"

\* The string is empty or holds nothing but blanks, tabs and line ends.
RECURSIVE IsBlank(_)
IsBlank(s) ==
    \/ Len(s) = 0
    \/ /\ SubSeq(s, 1, 1) \in {" ", "\t", "\n", "\r"}
       /\ IsBlank(SubSeq(s, 2, Len(s)))

\* C23: in the mcpserver mode, when the token of the loaded configuration
\* is empty after trimming, the process prints a message and exits with
\* the status 0, with no listener bound and no request sent to the remote
\* service; a listener is bound only when the token is not empty after
\* trimming.
C23_NoTokenNoListener ==
    RanMcpServerMode /\ process.v.loaded.ok
    => /\ IsBlank(process.v.loaded.config.token)
          => /\ process.v.exit = Some(0)
             /\ Len(process.v.printed) > 0
             /\ ~process.v.listener.some
             /\ process.v.requests = <<>>
       /\ process.v.listener.some
          => /\ ~IsBlank(process.v.loaded.config.token)
             /\ ~process.v.exit.some

\* The mcpserver mode has exited with the status 0 on a token of blanks
\* only, read from the file of the current directory.
C23_Witness ==
    /\ RanMcpServerMode
    /\ process.v.loaded.ok
    /\ process.v.loaded.config.token = " \t"
    /\ process.v.exit = Some(0)
    /\ ~process.v.listener.some

\* The configuration the file holds, when it is there and holds one.
ConfigIn(file) ==
    IF \E c \in StoredConfigs : file = FileOf(c)
    THEN Some(CHOOSE c \in StoredConfigs : file = FileOf(c))
    ELSE None

\* What the load is to return: the configuration of the file of the
\* current directory, else of the file of the user's directory, else the
\* default.
ExpectedConfig(d) ==
    IF ConfigIn(d.cwd).some THEN ConfigIn(d.cwd).v
    ELSE IF ConfigIn(d.user).some THEN ConfigIn(d.user).v
    ELSE Config("", None, None)

\* C24: Config::load never fails: it returns the configuration of the file
\* of the current directory when that file is there and parses, else the
\* one of the file of the user's configuration directory when that is
\* there and parses, else the default configuration.
C24_LoadNeverFails ==
    process.some
    => /\ process.v.loaded.ok
       /\ process.v.loaded.config = ExpectedConfig(disk)

\* The web handler is between its remote call and the end.
WebRunning(h) == web_task[h].at = "calling"

\* The step is a step of the handler h alone.
WebStepOf(h) ==
    /\ web_task'[h] # web_task[h]
    /\ \A g \in WebHandlers \ {h} : web_task'[g] = web_task[g]

\* C28: in web mode a handler holds the single state lock from its first
\* read of the shared state to its end, the remote call included; the
\* state and the configuration file change, and a response is made from the
\* state, only in a step of the handler that holds the lock; while a
\* handler waits for its remote call nobody changes the state, so the
\* requests take effect one at a time; and whenever no handler is in the
\* middle of its work, a present client comes with a non-empty stored token.
C28_WebHandlersOneAtATime ==
    /\ [](\A h \in WebHandlers : WebRunning(h) => Holds(web_lock, h))
    /\ [][ (web_state' # web_state \/ disk' # disk
            \/ \E h \in WebHandlers : web_task'[h].response # web_task[h].response
                                      /\ web_task'[h].response # None)
           => \E h \in WebHandlers : Holds(web_lock, h) /\ WebStepOf(h) ]_vars
    /\ [][ \A h \in WebHandlers :
              WebRunning(h) /\ web_task'[h].at = "calling" => web_state' = web_state ]_vars
    /\ []( (\A h \in WebHandlers : ~WebRunning(h))
           => (web_state.mcp_client.some => web_state.config.token # "") )

\* A token submission waits for its probe while a reset waits for the lock,
\* and a client is present.
C28_Witness ==
    \E h \in WebHandlers, g \in WebHandlers :
        /\ web_task[h].at = "calling" /\ web_task[h].route = "token"
        /\ web_task[g].at = "wait_state" /\ web_task[g].route = "reset"
        /\ web_lock = <<h, g>>
        /\ web_state.mcp_client.some

\* The token that the next Config::load finds is empty.
StoredTokenEmpty(d) == load(d).ok /\ load(d).config.token = ""

\* The step is the reset of the web front-end, made by the handler h.
WebResets(h) ==
    /\ web_task[h].route = "reset"
    /\ web_task[h].at = "wait_state" /\ web_task'[h].at = "done"

\* The step is the reset of the terminal front-end: only menu option 3
\* leads from the main screen to the token-input screen.
TuiResets ==
    /\ app # None /\ app.current_screen.type = "Main"
    /\ app'.current_screen.type = "TokenInput"

\* The request is a tools/call.
IsPostedToolCall(call) ==
    HasKey(call.request.members, "method")
    /\ Get(call.request.members, "method") = JStr("tools/call")

\* C25: after an explicit reset (menu option 3 of the terminal front-end,
\* POST /api/reset of the web front-end) the in-memory client is removed
\* and the stored token is empty; the front-end posts a remote tool call
\* only with a client, and a client comes back only with a token that has
\* just been validated.
C25_ResetClearsCredential ==
    /\ [][ \A h \in WebHandlers :
              WebResets(h) => /\ web_state'.mcp_client = None
                              /\ web_state'.config.token = ""
                              /\ StoredTokenEmpty(disk') ]_vars
    /\ [][ TuiResets => app'.mcp_client = None /\ StoredTokenEmpty(disk') ]_vars
    /\ [][ \A h \in WebHandlers :
              (web_task'[h].call # web_task[h].call /\ web_task'[h].call.some
               /\ IsPostedToolCall(web_task'[h].call.v))
              => web_state.mcp_client.some ]_vars
    /\ [][ (app # None /\ \E i \in 1..Len(tui_calls') : IsPostedToolCall(tui_calls'[i]))
           => app.mcp_client.some ]_vars
    /\ [][ (web_state # None /\ ~web_state.mcp_client.some /\ web_state'.mcp_client.some)
           => \E h \in WebHandlers :
                 /\ web_task[h].route = "token" /\ WebRunning(h)
                 /\ web_task'[h].response = Some(ApiResponse(TRUE, "token validated", None))
                 /\ web_state'.mcp_client = Some(web_task[h].call.v.client) ]_vars
    /\ [][ (app # None /\ ~app.mcp_client.some /\ app'.mcp_client.some)
           => /\ Len(tui_calls') = 1
              /\ tui_calls'[1].request = ProbeRequest
              /\ app'.mcp_client = Some(tui_calls'[1].client) ]_vars

\* C26: when the inbound connection of a tools/call is dropped while its
\* remote call is in flight, the remote call is not cancelled: the
\* exchange leaves the call only with the reply of the remote service (or
\* its timeout), the result is then discarded, and an exchange that is over
\* holds neither lock nor waits for one.
C26_DroppedCallRunsToItsEnd ==
    /\ [][ \A r \in ConcurrentSlots :
              (r \in dropped /\ pc[r] = "calling" /\ pc'[r] # "calling")
              => (pc'[r] = "done" /\ reply'[r] # None) ]_vars
    /\ [][ \A r \in ConcurrentSlots :
              (r \in dropped /\ pc[r] = "done" /\ pc'[r] # "done")
              => (pc'[r] = "idle" /\ r \notin dropped') ]_vars
    /\ [](\A r \in ConcurrentSlots :
              pc[r] \in {"idle", "done"}
              => ~Holds_NotExclusive(state_lock, r) /\ ~Holds_NotExclusive(client_lock, r))

\* The tool handler waits for one of the two locks.
LockWaiting(r) == pc[r] \in {"wait_state", "wait_client"}

\* C31: a tool handler asks for the client lock only while it holds the
\* server-state lock, posts at most one request while it holds them, has
\* released both when its response is made whatever the remote call came
\* to, and a tool call that waits for a lock comes to its own remote call.
C31_ToolHandlersCannotDeadlock ==
    /\ [](\A r \in ConcurrentSlots :
             /\ Holds_NotExclusive(client_lock, r) => Holds(state_lock, r)
             /\ Holds(client_lock, r) => Len(sent[r]) <= 1
             /\ pc[r] \in {"idle", "done"}
                => /\ ~Holds_NotExclusive(state_lock, r)
                   /\ ~Holds_NotExclusive(client_lock, r))
    /\ \A r \in ConcurrentSlots : LockWaiting(r) ~> (pc[r] = "calling")

\* The remote call of a tool call has failed and its response is made; the
\* tool call that waited behind it is now first at the server-state lock
\* and the client lock is free.
C31_Witness ==
    \E r \in ConcurrentSlots, q \in ConcurrentSlots :
        /\ pc[q] = "done" /\ reply[q].some /\ ~call_tool(reply[q].v).ok
        /\ pc[r] = "wait_state"
        /\ state_lock = <<r>> /\ client_lock = <<>>

\* C32: when Config::save has returned Ok for a configuration, the next
\* Config::load returns that configuration, whatever files existed before;
\* so after a saved token reset the next load has no valid token.
C32_SavedIsLoaded ==
    (config_op # None /\ config_op.v.saved /\ config_op.v.loaded # None)
    => /\ config_op.v.loaded.v = LoadOk(config_op.v.config)
       /\ config_op.v.config.token = "" => ~has_valid_token(config_op.v.loaded.v.config)

\* The last n entries of a sequence, all of them when it has fewer.
LastOf(seq, n) ==
    IF Len(seq) <= n THEN seq ELSE SubSeq(seq, Len(seq) - n + 1, Len(seq))

\* C33: after any sequence of add_log calls, on the terminal App and on the
\* web state, the log list holds at most 100 entries, which are the messages
\* added last in the order they were added; a call made on a full list drops
\* exactly the oldest entry.
C33_LogKeepsTheLatestHundred ==
    /\ [](log_op # None =>
            /\ Len(log_op.v.logs) <= 100
            /\ log_op.v.logs = LastOf(log_op.v.added, 100))
    /\ [][(log_op # None /\ log_op' # log_op /\ Len(log_op.v.logs) = 100) =>
            /\ Len(log_op'.v.logs) = 100
            /\ SubSeq(log_op'.v.logs, 1, 99) = Tail(log_op.v.logs)
            /\ log_op'.v.logs[100] = log_op'.v.added[Len(log_op'.v.added)]]_vars

\* Two messages were added to the terminal App's log list when it held
\* 100 lines: the two oldest lines are gone, the newest message is last.
C33_Witness ==
    /\ log_op # None
    /\ log_op.v.front = "tui"
    /\ Len(log_op.v.added) = 102
    /\ Len(log_op.v.logs) = 100
    /\ log_op.v.logs[1] = "line 3"
    /\ log_op.v.logs[100] \in LogMessages

\* App::run takes the Enter key on the token-input screen, with what the
\* probe and the two McpClient::new come to.
EnterOnTokenInput(answer, build, build_again) ==
    /\ app # None
    /\ app.current_screen.type = "TokenInput"
    /\ tui_keys' = tui_keys + 1
    /\ Take(TokenInputEnter(app, disk, answer, build, build_again))

\* A candidate file holds a configuration with the token.
ConfigurationSavedWith(d, token) ==
    \E file \in {d.user, d.cwd} :
        /\ load_from_path(file).ok
        /\ load_from_path(file).v.token = token

\* C34: on the token-input screen Enter leads to the main screen only when
\* the input is not empty, validate_token returned Ok(true) and the
\* configuration was saved; with empty input no request is posted; with
\* empty input, Ok(false) or Err the screen stays the token-input screen
\* with an error message, one for an invalid token and another for a
\* failed probe, no client is installed and no file is written.
C34_EnterOnTokenInput ==
    [][\A answer \in TuiProbeReplies, build \in BOOLEAN, build_again \in BOOLEAN :
        EnterOnTokenInput(answer, build, build_again) =>
            LET input == app.current_screen.input
                validation_result == validate_token(answer)
                refused == build /\ input # ""
                           /\ ~(validation_result.ok /\ validation_result.valid)
            IN  /\ app'.current_screen.type = "Main" =>
                      /\ input # ""
                      /\ validation_result.ok /\ validation_result.valid
                      /\ ConfigurationSavedWith(disk', FormatToken(input))
                /\ input = "" => tui_calls' = <<>>
                /\ (input = "" \/ refused) =>
                      /\ tui_exit' = None
                      /\ app'.current_screen.type = "TokenInput"
                      /\ app'.current_screen.error_message # None
                      /\ app'.mcp_client = None
                      /\ disk' = disk
                /\ (refused /\ validation_result.ok) =>
                      app'.current_screen.error_message = Some("token invalid, enter it again")
                /\ (refused /\ ~validation_result.ok) =>
                      /\ app'.current_screen.error_message # Some("token invalid, enter it again")
                      /\ StartsWith(app'.current_screen.error_message.v, "validation failed: ")]_vars

\* Enter was pressed on a token the service refused: the probe was posted
\* with the formatted token, the screen shows the message of an invalid
\* token, and there is no client.
C34_Witness ==
    /\ app # None
    /\ app.current_screen.type = "TokenInput"
    /\ app.current_screen.input = "abc"
    /\ app.current_screen.error_message = Some("token invalid, enter it again")
    /\ tui_calls = <<Posted(McpClientNew("Bearer abc"), ProbeRequest)>>
    /\ app.mcp_client = None
    /\ tui_exit = None

\* C35: in the terminal front-end, over every sequence of key events from
\* every start, the main screen is shown only with a client present, and
\* with no client the token-input screen is shown; the main screen gives
\* way to another screen only by reset_token.
C35_MainScreenHasClient ==
    /\ [](app # None =>
            /\ app.current_screen.type = "Main" => app.mcp_client # None
            /\ app.mcp_client = None => app.current_screen.type = "TokenInput")
    /\ [][(app # None /\ app.current_screen.type = "Main"
           /\ app'.current_screen.type # "Main")
          => Take(reset_token(app, disk))]_vars

\* The main screen was reached from the token-input screen by an accepted
\* token, after a reset had left it.
C35_Witness ==
    /\ app # None
    /\ app.current_screen.type = "Main"
    /\ app.mcp_client = Some(McpClientNew("Bearer a"))
    /\ \E i \in 1..Len(app.logs) : app.logs[i] = "token reset"
    /\ tui_keys = 3

\* App::run reads the key and handles it.
KeyPressed(key) == QuitOn(key) \/ TokenInputOn(key) \/ MainScreenOn(key)

\* C36: pressing the key q on the main screen ends the main loop of the
\* application, as the status bar of the main screen says.
C36_QExitsFromMainScreen ==
    [][(app # None /\ app.current_screen.type = "Main"
        /\ KeyPressed(Key("Char", "q", FALSE)))
       => tui_exit' = ExitSuccess]_vars

\* C37: on the token-input screen every character key appends exactly its
\* character to the input, for every character.
C37_EveryCharacterIsAppended ==
    [][\A key \in Keys :
        (app # None /\ app.current_screen.type = "TokenInput"
         /\ key.code = "Char" /\ KeyPressed(key))
        => /\ app'.current_screen.type = "TokenInput"
           /\ app'.current_screen.input = app.current_screen.input \o key.c]_vars

\* The handler of POST /api/token comes to its end with success = false.
TokenRefused(h) ==
    /\ web_task[h].route = "token"
    /\ web_task[h].at \in {"wait_state", "calling"}
    /\ web_task'[h].at = "done"
    /\ ~web_task'[h].response.v.success

\* C38: a POST /api/token whose validation does not succeed (invalid
\* token, failed probe, or McpClient::new failing) is answered with
\* success = false and leaves the client, the stored token and the cached
\* coupons as they were; one log line is added and nothing else changes.
C38_RefusedTokenChangesNothing ==
    [][\A h \in WebHandlers :
        /\ \A answer \in WebProbeReplies :
              (/\ web_task[h].route = "token" /\ web_task[h].at = "calling"
               /\ ~(validate_token(answer).ok /\ validate_token(answer).valid)
               /\ api_token_handler_validated(h, answer))
              => TokenRefused(h)
        /\ (web_task[h].route = "token" /\ web_task[h].at = "wait_state"
            /\ web_task'[h].at = "done")
           => TokenRefused(h)
        /\ TokenRefused(h) =>
              /\ web_state'.mcp_client = web_state.mcp_client
              /\ web_state'.config = web_state.config
              /\ web_state'.coupons = web_state.coupons
              /\ disk' = disk
              /\ web_state'.logs = Append(web_state.logs, web_task'[h].response.v.message)
              /\ web_task'[h].response.v.coupons = None]_vars

\* A token was accepted, then another one refused as invalid: the client
\* and the stored token are those of the first.
C38_Witness ==
    /\ web_state # None
    /\ web_state.mcp_client = Some(McpClientNew("Bearer abc"))
    /\ web_state.config.token = "Bearer abc"
    /\ \E h \in WebHandlers :
          /\ web_task[h].at = "done"
          /\ web_task[h].route = "token"
          /\ web_task[h].payload = Some("Bearer xyz")
          /\ web_task[h].response = Some(ApiResponse(FALSE, "token invalid, enter it again", None))
    /\ \E i \in 1..Len(web_state.logs) : web_state.logs[i] = "token validated"

====
